---- MODULE Spec2Model ----
(***************************************************************************)
(* Verification model of the databricks-sdk-cpp connection pool            *)
(* (src/src/connection_pool.cpp), of the process-wide pool registry        *)
(* (src/src/internal/pool_manager.cpp) and of the Client facade            *)
(* (src/src/core/client.cpp): its builder, its retry wrapper, its error    *)
(* sanitisation and its query path.                                        *)
(*                                                                         *)
(* Every pool method runs under the pool's mutex_, so each method is one   *)
(* atomic action, except acquire(), which releases the mutex while it is   *)
(* blocked in cv_.wait_until and therefore is split at that point.         *)
(***************************************************************************)
EXTENDS Integers, Sequences, FiniteSets, TLC

\* ---------------------------------------------------------------- bounds
NumThreads == 2          \* threads using the pool
SlotsPerThread == 2      \* PooledConnection objects a thread can have alive
MaxPoolSize == 2         \* largest max_connections drawn by Init
NumStr == 2              \* distinct values of each string or int config field
MaxStrHash == 1          \* largest value std::hash<std::string> returns
MaxPools == 2            \* ConnectionPool objects get_pool may construct
MaxClients == 2          \* pooled Client objects alive at a time
MaxAttempts == 3         \* largest RetryConfig::max_attempts drawn
MaxParams == 2           \* longest parameter list passed to query()
MaxTasks == 2            \* connect_async() calls made on one client

\* ------------------------------------------------------ program constants
DefaultTimeoutMs == 5000 \* connection_timeout_ms_ set by the constructor
ScenarioMin == 2         \* min_connections of the test fixture
ScenarioMax == 5         \* max_connections of the test fixture
DefaultTimeoutSeconds == 60       \* AuthConfig::timeout_seconds
DefaultMaxAttempts == 3           \* RetryConfig::max_attempts
DefaultInitialBackoffMs == 100    \* RetryConfig::initial_backoff_ms
DefaultMaxBackoffMs == 10000      \* RetryConfig::max_backoff_ms
JitterLoPct == 75        \* jitter_dist(0.75, 1.25), in percent
JitterHiPct == 125

\* A caller's acquire timeout other than the default.
CallerTimeoutMs == DefaultTimeoutMs \div 2

Threads == 1..NumThreads
Null == 0                \* an empty unique_ptr<Client>

VARIABLES
    pool,      \* the ConnectionPool object (its private members)
    created,   \* number of Client objects ever allocated by create_connection
    conn,      \* the PooledConnection objects: slot -> [alive, client_, pool_]
    pc,        \* per thread: "idle", "waiting" (in cv_.wait_until), "woken"
    expired,   \* per thread: the deadline computed by its acquire() has passed
    offered,   \* per thread: a handle was released while it was blocked, before
               \* its deadline, on an exhausted pool (history of its acquire())
    run,       \* history: the successful acquires since the pool was last
               \* warmed with nothing outstanding, while nothing was released
    ret,       \* outcome of the acquire() that completed in the last step
    hasher,    \* std::hash<std::string> of this build: string -> hash value
    pools_,    \* PoolManager::pools_ : key hash -> pool object
    poolObjs,  \* the ConnectionPool objects made by get_pool, by identity
    clients,   \* the pooled Client objects: id -> [live, key, pooling, pool]
    builder,   \* the Client::Builder: auth_, sql_, pooling_, retry_, auto_connect_
    cli,       \* the Client under study: its Impl members, or none / failed
    rt,        \* the frame of the execute_with_retry call in progress or last:
               \* phase, attempt, backoff_ms, and as history the number of
               \* invocations, the last error caught and the sleeps made
    query,     \* the arguments of the query() call in progress or last
    driver,    \* the calls made to ODBC and to the registry by the last call
    log,       \* the error texts the last call handed to the logger
    raised,    \* the error the last build(), connect() or query() raised
    connection_mutex,      \* Impl::connection_mutex: its holder, 0 when free
    async_connect_future,  \* Impl::async_connect_future: the task whose shared
               \* state it holds, 0 when not valid()
    act,       \* per thread and per std::async task: the call it is in (op),
               \* its position (at), and as history of the call: the async
               \* connect pending when it started (saw), whether it found
               \* the mutex held (waited), how it ended (res)
    spawned,   \* number of tasks std::async has launched
    links,     \* history: SQLDriverConnect successes since the last SQLDisconnect
    home_cfg,  \* the file $HOME/.databrickscfg: its lines, or absent
    environ,   \* the process environment: variable -> [set, v]
    loaded     \* what the last AuthConfig::from_* call returned or threw

poolVars == <<pool, created, conn, pc, expired, offered, run, ret>>
mgrVars == <<hasher, pools_, poolObjs, clients>>
connVars == <<connection_mutex, async_connect_future, act, spawned, links>>
envVars == <<home_cfg, environ, loaded>>
cliVars == <<builder, cli, rt, query, driver, log, raised,
             connection_mutex, async_connect_future, act, spawned, links,
             home_cfg, environ, loaded>>
vars == <<pool, created, conn, pc, expired, offered, run, ret,
          hasher, pools_, poolObjs, clients,
          builder, cli, rt, query, driver, log, raised,
          connection_mutex, async_connect_future, act, spawned, links,
          home_cfg, environ, loaded>>

\* ------------------------------------------------------------- the pool
\* The handles first+1 .. first+k, in creation order.
RECURSIVE NewHandles(_, _)
NewHandles(first, k) ==
    IF k = 0 THEN << >> ELSE Append(NewHandles(first, k - 1), first + k)

\* ConnectionPool::ConnectionPool: the member initialisers.
NewPool_prewarmed(minc, maxc) ==
    [min_connections_ |-> minc,
     max_connections_ |-> maxc,
     connection_timeout_ms_ |-> DefaultTimeoutMs,
     total_connections_ |-> minc,
     active_connections_ |-> 0,
     available_connections_ |-> NewHandles(0, minc),
     shutdown_ |-> FALSE]
NewPool(minc, maxc) ==
    [min_connections_ |-> minc,
     max_connections_ |-> maxc,
     connection_timeout_ms_ |-> DefaultTimeoutMs,
     total_connections_ |-> 0,
     active_connections_ |-> 0,
     available_connections_ |-> << >>,
     shutdown_ |-> FALSE]

\* The constructor throws std::invalid_argument when min > max.
CtorAccepts_any(minc, maxc) == TRUE
CtorAccepts(minc, maxc) == ~(minc > maxc)

\* ConnectionPool::get_stats: the snapshot taken under the mutex.
get_stats(p) ==
    [total_connections |-> p.total_connections_,
     available_connections |-> Len(p.available_connections_),
     active_connections |-> p.active_connections_]

\* The pool after create_connection() threw: Client::Builder::build() throws
\* before total_connections_++ is reached, and in acquire() before
\* active_connections_++.
create_failed_counted(p) == [p EXCEPT !.total_connections_ = @ + 1]
create_failed(p) == p

\* The pool after create_connection() succeeded once (total_connections_++).
create_connection_uncounted(p) == p
create_connection(p) ==
    [p EXCEPT !.total_connections_ = @ + 1]

\* ConnectionPool::return_connection, the pool part (the notify is in the
\* actions): p after handle h came back.
return_connection_keeps_active(p, h) ==
    IF h = Null THEN p
    ELSE IF p.shutdown_
         THEN [p EXCEPT !.total_connections_ = @ - 1]
         ELSE [p EXCEPT !.available_connections_ = Append(@, h)]
return_connection(p, h) ==
    IF h = Null THEN p
    ELSE IF p.shutdown_
         THEN [p EXCEPT !.total_connections_ = @ - 1]
         ELSE [p EXCEPT !.active_connections_ = @ - 1,
                        !.available_connections_ = Append(@, h)]

\* ConnectionPool::shutdown, the pool part: flag set, idle handles dropped.
shutdown_keeps_idle(p) ==
    IF p.shutdown_ THEN p ELSE [p EXCEPT !.shutdown_ = TRUE]
shutdown_idle_only(p) ==
    [p EXCEPT !.total_connections_ = @ - Len(p.available_connections_),
              !.available_connections_ = << >>]
shutdown(p) ==
    IF p.shutdown_ THEN p
    ELSE [p EXCEPT !.shutdown_ = TRUE,
                   !.total_connections_ = @ - Len(p.available_connections_),
                   !.available_connections_ = << >>]

\* ConnectionPool::warm_up, the pool part: the number of handles the loop
\* still has to create, and p after k of them were created and queued
\* (their identities are first+1 .. first+k).
Missing_to_max(p) == p.max_connections_ - p.total_connections_
Missing(p) ==
    IF p.total_connections_ < p.min_connections_
    THEN p.min_connections_ - p.total_connections_
    ELSE 0
warm_up(p, first, k) ==
    [p EXCEPT !.total_connections_ = @ + k,
              !.available_connections_ = @ \o NewHandles(first, k)]

\* ------------------------------------------------- PooledConnection objects
Dead == [alive |-> FALSE, client_ |-> Null, pool_ |-> FALSE]
\* What a move leaves in the source object: std::move(other.client_) empties
\* the unique_ptr and other.pool_ = nullptr.
MovedFrom_keeps_client(c) == [c EXCEPT !.pool_ = FALSE]
MovedFrom_unchanged(c) == c
MovedFrom(c) == [c EXCEPT !.client_ = Null, !.pool_ = FALSE]
\* PooledConnection::PooledConnection(client, pool)
PooledConnection(h) == [alive |-> TRUE, client_ |-> h, pool_ |-> TRUE]

Slots == DOMAIN conn
Owner(s) == s[1]
FreeSlots(t) == {s \in Slots : Owner(s) = t /\ ~conn[s].alive}
FirstFree(t) ==
    CHOOSE s \in FreeSlots(t) : \A r \in FreeSlots(t) : s[2] <= r[2]

RunOff == [on |-> FALSE, reused |-> 0, made |-> 0]
RunStart == [on |-> TRUE, reused |-> 0, made |-> 0]

\* The exception acquire() throws when it ends as o (the word Timeout is a
\* symbol of its own: is_error_retryable searches for it); text is the what() of
\* the exception Client::Builder::build() threw inside create_connection().
NoThrow == [type |-> "none", what |-> << >>]
acquire_error_generic(o, text) ==
    IF o \in {"shutdown", "timeout", "create_failed"}
    THEN [type |-> "std::runtime_error", what |-> <<"acquire failed">>]
    ELSE NoThrow
acquire_error(o, text) ==
    IF o = "shutdown"
    THEN [type |-> "std::runtime_error",
          what |-> <<"ConnectionPool has been shut down">>]
    ELSE IF o = "timeout"
    THEN [type |-> "std::runtime_error",
          what |-> <<"Timeout", " waiting for connection from pool">>]
    ELSE IF o = "create_failed"
    THEN [type |-> "std::runtime_error", what |-> text]
    ELSE NoThrow

NoRet == [thread |-> 0, outcome |-> "none", handle |-> Null, offered |-> FALSE,
          error |-> NoThrow]
Outcome(t, o, h) ==
    [thread |-> t, outcome |-> o, handle |-> h, offered |-> offered[t],
     error |-> acquire_error(o, << >>)]

Waiters == {t \in Threads : pc[t] = "waiting"}

\* ---------------------------------------------------- Client: idle values
\* Texts are sequences of symbols; a symbol is a word, an error code, a
\* separator, or one character of the token.
\* Default-constructed configuration structs (include/databricks/core/config.h).
DefaultAuth ==
    [host |-> << >>, token |-> << >>, secure_token_ |-> << >>,
     timeout_seconds |-> DefaultTimeoutSeconds]
DefaultSql ==
    [http_path |-> << >>, odbc_driver_name |-> <<"Simba Spark ODBC Driver">>]
DefaultPooling_enabled ==
    [enabled |-> TRUE, min_connections |-> 1, max_connections |-> 10,
     connection_timeout_ms |-> DefaultTimeoutMs]
DefaultPooling ==
    [enabled |-> FALSE, min_connections |-> 1, max_connections |-> 10,
     connection_timeout_ms |-> DefaultTimeoutMs]
DefaultRetry ==
    [enabled |-> TRUE,
     max_attempts |-> DefaultMaxAttempts,
     initial_backoff_ms |-> DefaultInitialBackoffMs,
     backoff_multiplier |-> [num |-> 2, den |-> 1],
     max_backoff_ms |-> DefaultMaxBackoffMs,
     retry_on_timeout |-> TRUE,
     retry_on_connection_lost |-> TRUE]

\* Client::Builder::Builder(): every unique_ptr member is empty.
NewBuilder ==
    [auth_ |-> [set |-> FALSE, v |-> DefaultAuth],
     sql_ |-> [set |-> FALSE, v |-> DefaultSql],
     pooling_ |-> [set |-> FALSE, v |-> DefaultPooling],
     retry_ |-> [set |-> FALSE, v |-> DefaultRetry],
     auto_connect_ |-> FALSE]

\* No Client object exists.
NoCli ==
    [state |-> "none", auth |-> DefaultAuth, sql |-> DefaultSql,
     pooling |-> DefaultPooling, retry |-> DefaultRetry,
     pooled |-> FALSE, connected |-> FALSE]

\* No execute_with_retry call was made.
NoCall ==
    [phase |-> "idle", attempt |-> 0, backoff_ms |-> 0, calls |-> 0,
     last |-> << >>, sleeps |-> << >>]
NoQuery == [sql |-> << >>, params |-> << >>]
NoError == [kind |-> "none", attempts |-> 0, text |-> << >>]
Error(kind, text) == [kind |-> kind, attempts |-> 0, text |-> text]

\* The callers and the tasks connect_async() launches.
Tasks == (NumThreads + 1)..(NumThreads + MaxTasks)
Activities == Threads \cup Tasks
NoAct == [op |-> "none", at |-> "idle", saw |-> 0, waited |-> FALSE,
          res |-> "none"]
\* Nobody is inside connect(), connect_async() or query().
ConnIdle ==
    /\ connection_mutex = 0
    /\ async_connect_future = 0
    /\ act = [a \in Activities |-> NoAct]
    /\ spawned = 0
    /\ links = 0

\* The environment variables the loaders read.
EnvNames ==
    {"HOME", "DATABRICKS_HOST", "DATABRICKS_SERVER_HOSTNAME",
     "DATABRICKS_TOKEN", "DATABRICKS_ACCESS_TOKEN", "DATABRICKS_TIMEOUT"}
Unset == [set |-> FALSE, v |-> << >>]
NoFile == [exists |-> FALSE, lines |-> << >>]
NoLoad == [ok |-> FALSE, by |-> "none", config |-> DefaultAuth,
           error |-> << >>]
\* No configuration file, an empty environment, nothing loaded.
EnvIdle ==
    /\ home_cfg = NoFile
    /\ environ = [n \in EnvNames |-> Unset]
    /\ loaded = NoLoad

\* No client activity.
CliIdle ==
    /\ ConnIdle
    /\ EnvIdle
    /\ builder = NewBuilder
    /\ cli = NoCli
    /\ rt = NoCall
    /\ query = NoQuery
    /\ driver = << >>
    /\ log = {}
    /\ raised = NoError

\* ------------------------------------------------------------------ Init
\* No registry activity: the pool under study was built directly.
MgrIdle ==
    /\ hasher = << >>
    /\ pools_ = << >>
    /\ poolObjs = << >>
    /\ clients = << >>

InitThreads(slotsPerThread) ==
    /\ created = 0
    /\ conn = [s \in Threads \X (1..slotsPerThread) |-> Dead]
    /\ pc = [t \in Threads |-> "idle"]
    /\ expired = [t \in Threads |-> FALSE]
    /\ offered = [t \in Threads |-> FALSE]
    /\ run = RunOff
    /\ ret = NoRet

\* A pool right after its constructor returned, for every accepted pair
\* (min_connections, max_connections) within the bound.
Init ==
    /\ \E maxc \in 1..MaxPoolSize : \E minc \in 0..maxc :
          /\ CtorAccepts(minc, maxc)
          /\ pool = NewPool(minc, maxc)
    /\ InitThreads(SlotsPerThread)
    /\ MgrIdle
    /\ CliIdle

\* The pool of the test fixture: ConnectionPool pool(auth, sql, 2, 5), with
\* enough PooledConnection objects for max_connections + 1 acquires.
InitFixture ==
    /\ CtorAccepts(ScenarioMin, ScenarioMax)
    /\ pool = NewPool(ScenarioMin, ScenarioMax)
    /\ InitThreads(ScenarioMax \div NumThreads + 1)
    /\ MgrIdle
    /\ CliIdle

\* -------------------------------------------------------------- acquire
\* What Client::Builder().with_auth(auth_).with_sql(sql_)
\* .with_auto_connect(true).build() throws inside create_connection(): a
\* configuration error, or the error of Client::Impl::connect, whose text
\* ends with the diagnostic of the driver.
CreateErrorTexts ==
    {<<"Invalid AuthConfig">>,
     <<"Failed to connect to Databricks: ", "08001">>,
     <<"Failed to connect to Databricks: ",
       "Timeout", " waiting for connection from pool">>}

\* The thread's call ends: back to idle, its deadline and history dropped.
Leave(t) ==
    /\ pc' = [pc EXCEPT ![t] = "idle"]
    /\ expired' = [expired EXCEPT ![t] = FALSE]
    /\ offered' = [offered EXCEPT ![t] = FALSE]

\* One pass through the body of the while(true) loop of acquire(), run by
\* thread t with the mutex held.
AcquireLoop(t) ==
    IF pool.shutdown_
    THEN /\ ret' = Outcome(t, "shutdown", Null)
         /\ Leave(t)
         /\ UNCHANGED <<pool, created, conn, run>>
    ELSE IF pool.available_connections_ # << >>
    THEN /\ pool' = [pool EXCEPT
                       !.available_connections_ = Tail(@),
                       !.active_connections_ = @ + 1]
         /\ conn' = [conn EXCEPT ![FirstFree(t)] =
                       PooledConnection(Head(pool.available_connections_))]
         /\ ret' = Outcome(t, "reused", Head(pool.available_connections_))
         /\ run' = IF run.on THEN [run EXCEPT !.reused = @ + 1] ELSE run
         /\ Leave(t)
         /\ UNCHANGED created
    ELSE IF pool.total_connections_ < pool.max_connections_
    THEN \/ /\ created' = created + 1
            /\ pool' = [create_connection(pool) EXCEPT
                          !.active_connections_ = @ + 1]
            /\ conn' = [conn EXCEPT ![FirstFree(t)] =
                          PooledConnection(created + 1)]
            /\ ret' = Outcome(t, "created", created + 1)
            /\ run' = IF run.on THEN [run EXCEPT !.made = @ + 1] ELSE run
            /\ Leave(t)
         \/ \* Client::Builder::build() threw inside create_connection
            /\ \E text \in CreateErrorTexts :
                  ret' = [Outcome(t, "create_failed", Null) EXCEPT
                            !.error = acquire_error("create_failed", text)]
            /\ pool' = create_failed(pool)
            /\ Leave(t)
            /\ UNCHANGED <<created, conn, run>>
    ELSE \* cv_.wait_until(lock, deadline): the mutex is released
         /\ pc' = [pc EXCEPT ![t] = "waiting"]
         /\ ret' = NoRet
         /\ UNCHANGED <<pool, created, conn, expired, offered, run>>

\* A thread calls acquire(): lock, compute the deadline, first loop pass.
Acquire(t) ==
    /\ pc[t] = "idle"
    /\ FreeSlots(t) # {}
    /\ AcquireLoop(t)
    /\ UNCHANGED <<mgrVars, cliVars>>

\* The deadline of t's acquire() passes; a thread in the timed wait stops
\* waiting and queues for the mutex.
DeadlinePass_no_deadline(t) ==
    /\ FALSE
    /\ UNCHANGED vars
DeadlinePass(t) ==
    /\ pc[t] \in {"waiting", "woken"}
    /\ ~expired[t]
    /\ expired' = [expired EXCEPT ![t] = TRUE]
    /\ pc' = [pc EXCEPT ![t] = "woken"]
    /\ ret' = NoRet
    /\ UNCHANGED <<pool, created, conn, offered, run>>
    /\ UNCHANGED <<mgrVars, cliVars>>

\* A condition variable may wake a waiter without any notify.
SpuriousWake(t) ==
    /\ pc[t] = "waiting"
    /\ pc' = [pc EXCEPT ![t] = "woken"]
    /\ ret' = NoRet
    /\ UNCHANGED <<pool, created, conn, expired, offered, run>>
    /\ UNCHANGED <<mgrVars, cliVars>>

\* wait_until returns in thread t with the mutex re-acquired: cv_status is
\* timeout when the deadline has passed, whatever woke the thread.
WaitReturns(t) ==
    /\ pc[t] = "woken"
    /\ IF expired[t]
       THEN /\ ret' = Outcome(t, "timeout", Null)
            /\ Leave(t)
            /\ UNCHANGED <<pool, created, conn, run>>
       ELSE AcquireLoop(t)

\* A thread that uses the pool directly is woken in its acquire().
Resume(t) ==
    /\ WaitReturns(t)
    /\ UNCHANGED <<mgrVars, cliVars>>

\* cv_.notify_one(): one of the threads blocked in the wait, if any.
NotifyOne_none(pcv) == {pcv}
NotifyOne(pcv) ==
    IF \A t \in Threads : pcv[t] # "waiting" THEN {pcv}
    ELSE {[pcv EXCEPT ![w] = "woken"] : w \in {t \in Threads : pcv[t] = "waiting"}}

\* cv_.notify_all()
NotifyAll_none(pcv) == pcv
NotifyAll(pcv) ==
    [t \in Threads |-> IF pcv[t] = "waiting" THEN "woken" ELSE pcv[t]]

\* The pool has no idle handle and may not create one.
Exhausted ==
    /\ pool.available_connections_ = << >>
    /\ pool.total_connections_ = pool.max_connections_

\* Effect of handing handle h back through return_connection.
GiveBack(h) ==
    /\ pool' = return_connection(pool, h)
    /\ IF h # Null /\ ~pool.shutdown_
       THEN /\ pc' \in NotifyOne(pc)
            /\ offered' = [t \in Threads |->
                             \/ offered[t]
                             \/ pc[t] = "waiting" /\ ~expired[t] /\ Exhausted]
       ELSE UNCHANGED <<pc, offered>>
    /\ run' = IF h # Null THEN RunOff ELSE run

\* PooledConnection::~PooledConnection, run by the owning thread.
Release_leak(t, s) ==
    /\ pc[t] = "idle"
    /\ Owner(s) = t
    /\ conn[s].alive
    /\ conn' = [conn EXCEPT ![s] = Dead]
    /\ ret' = NoRet
    /\ UNCHANGED <<pool, pc, offered, run, created, expired>>
Release(t, s) ==
    /\ pc[t] = "idle"
    /\ Owner(s) = t
    /\ conn[s].alive
    /\ IF conn[s].client_ # Null /\ conn[s].pool_
       THEN GiveBack(conn[s].client_)
       ELSE UNCHANGED <<pool, pc, offered, run>>
    /\ conn' = [conn EXCEPT ![s] = Dead]
    /\ ret' = NoRet
    /\ UNCHANGED <<created, expired>>

\* A thread that uses the pool directly drops a PooledConnection.
Destroy(t, s) ==
    /\ Release(t, s)
    /\ UNCHANGED <<mgrVars, cliVars>>

\* PooledConnection(PooledConnection&& other): thread t builds a new object
\* from the object in slot src.
MoveConstruct(t, src) ==
    /\ pc[t] = "idle"
    /\ FreeSlots(t) # {}
    /\ conn[src].alive
    /\ conn' = [conn EXCEPT
                  ![FirstFree(t)] = [alive |-> TRUE,
                                     client_ |-> conn[src].client_,
                                     pool_ |-> conn[src].pool_],
                  ![src] = MovedFrom(conn[src])]
    /\ ret' = NoRet
    /\ UNCHANGED <<pool, created, pc, expired, offered, run>>
    /\ UNCHANGED <<mgrVars, cliVars>>

\* PooledConnection::operator=(PooledConnection&& other): dst = move(src).
MoveAssign(t, dst, src) ==
    /\ pc[t] = "idle"
    /\ Owner(dst) = t
    /\ conn[dst].alive
    /\ conn[src].alive
    /\ IF dst # src
       THEN /\ IF conn[dst].client_ # Null /\ conn[dst].pool_
               THEN GiveBack(conn[dst].client_)
               ELSE UNCHANGED <<pool, pc, offered, run>>
            /\ conn' = [conn EXCEPT
                          ![dst] = [alive |-> TRUE,
                                    client_ |-> conn[src].client_,
                                    pool_ |-> conn[src].pool_],
                          ![src] = MovedFrom(conn[src])]
       ELSE UNCHANGED <<pool, pc, offered, run, conn>>
    /\ ret' = NoRet
    /\ UNCHANGED <<created, expired>>
    /\ UNCHANGED <<mgrVars, cliVars>>

\* ConnectionPool::warm_up: k of the missing handles are created; k below
\* the number missing means the next create_connection() threw.
WarmUpPool(t) ==
    /\ pc[t] = "idle"
    /\ IF pool.shutdown_
       THEN UNCHANGED <<pool, created, run>>
       ELSE \E k \in 0..Missing(pool) :
               /\ pool' = IF k < Missing(pool)
                          THEN create_failed(warm_up(pool, created, k))
                          ELSE warm_up(pool, created, k)
               /\ created' = created + k
               /\ run' = IF pool' = pool THEN run
                         ELSE IF /\ pool'.active_connections_ = 0
                                 /\ pool'.total_connections_ = pool.min_connections_
                              THEN RunStart
                              ELSE RunOff
    /\ ret' = NoRet
    /\ UNCHANGED <<conn, pc, expired, offered>>

\* A thread that uses the pool directly calls warm_up().
WarmUp(t) ==
    /\ WarmUpPool(t)
    /\ UNCHANGED <<mgrVars, cliVars>>

\* ConnectionPool::shutdown
Shutdown(t) ==
    /\ pc[t] = "idle"
    /\ pool' = shutdown(pool)
    /\ pc' = IF pool.shutdown_ THEN pc ELSE NotifyAll(pc)
    /\ run' = RunOff
    /\ ret' = NoRet
    /\ UNCHANGED <<created, conn, expired, offered>>
    /\ UNCHANGED <<mgrVars, cliVars>>

Next ==
    \/ \E t \in Threads : Acquire(t)
    \/ \E t \in Threads : DeadlinePass(t)
    \/ \E t \in Threads : SpuriousWake(t)
    \/ \E t \in Threads : Resume(t)
    \/ \E t \in Threads : \E s \in Slots : Destroy(t, s)
    \/ \E t \in Threads : \E s \in Slots : MoveConstruct(t, s)
    \/ \E t \in Threads : \E d \in Slots : \E s \in Slots : MoveAssign(t, d, s)
    \/ \E t \in Threads : WarmUp(t)
    \/ \E t \in Threads : Shutdown(t)

Spec == Init /\ [][Next]_vars

\* The scheduler eventually runs a thread that is ready to re-acquire the
\* mutex; nothing is assumed about the clock.
WakeSpec == Spec /\ \A t \in Threads : WF_vars(Resume(t))

\* In addition time advances: every deadline (now + connection_timeout_ms_,
\* a finite time) eventually passes.
FairSpec ==
    Spec /\ \A t \in Threads : WF_vars(Resume(t)) /\ WF_vars(DeadlinePass(t))

\* The fixture pool used through acquire, release, warm_up and shutdown.
NextFixture ==
    \/ \E t \in Threads : Acquire(t)
    \/ \E t \in Threads : DeadlinePass(t)
    \/ \E t \in Threads : SpuriousWake(t)
    \/ \E t \in Threads : Resume(t)
    \/ \E t \in Threads : \E s \in Slots : Destroy(t, s)
    \/ \E t \in Threads : WarmUp(t)
    \/ \E t \in Threads : Shutdown(t)

FixtureSpec == InitFixture /\ [][NextFixture]_vars

\* ====================================================================
\* PoolManager (src/src/internal/pool_manager.cpp) and pooled Clients
\* ====================================================================
StrVals == 1..NumStr       \* non-empty strings
TimeoutVals == 1..NumStr   \* timeout_seconds

\* PoolKey: what get_pool copies out of AuthConfig and SQLConfig.
AllKeys ==
    [host : StrVals, token : StrVals, http_path : StrVals,
     timeout_seconds : TimeoutVals, odbc_driver_name : StrVals]
BaseKey ==
    [host |-> 1, token |-> 1, http_path |-> 1,
     timeout_seconds |-> 1, odbc_driver_name |-> 1]
DiffFields(a, b) ==
    {f \in {"host", "token", "http_path", "timeout_seconds",
            "odbc_driver_name"} : a[f] # b[f]}
\* The configurations used: one base configuration and those that differ
\* from it in a single field.
Keys == {k \in AllKeys : Cardinality(DiffFields(k, BaseKey)) <= 1}

\* The PoolingConfig values used: two the pool constructor accepts, which
\* differ in every tunable, and one with min_connections > max_connections.
PoolingVals ==
    {[min_connections |-> 1, max_connections |-> 1,
      connection_timeout_ms |-> DefaultTimeoutMs],
     [min_connections |-> MaxPoolSize, max_connections |-> MaxPoolSize,
      connection_timeout_ms |-> CallerTimeoutMs],
     [min_connections |-> MaxPoolSize, max_connections |-> 1,
      connection_timeout_ms |-> DefaultTimeoutMs]}

\* Bitwise exclusive or of two naturals.
RECURSIVE Xor(_, _)
Xor(a, b) ==
    IF a = 0 THEN b
    ELSE IF b = 0 THEN a
    ELSE (((a % 2) + (b % 2)) % 2) + 2 * Xor(a \div 2, b \div 2)

\* PoolKey::operator==
KeyEq(a, b) ==
    /\ a.host = b.host
    /\ a.token = b.token
    /\ a.http_path = b.http_path
    /\ a.timeout_seconds = b.timeout_seconds
    /\ a.odbc_driver_name = b.odbc_driver_name

\* PoolKey::hash. std::hash<int> is the identity; the values stay far below
\* 2^64, so no bit is shifted out.
hash(k) ==
    Xor(Xor(Xor(Xor(hasher[k.host],
                    hasher[k.token] * 2),
                hasher[k.http_path] * 4),
            k.timeout_seconds * 8),
        hasher[k.odbc_driver_name] * 16)

\* pools_.find(key_hash): the pool found, 0 for pools_.end().
find_always_misses(reg, h) == 0
find(reg, h) == IF h \in DOMAIN reg THEN reg[h] ELSE 0

\* The pools the registry holds.
Registered == {pools_[h] : h \in DOMAIN pools_}

NoClient ==
    [live |-> FALSE, key |-> BaseKey,
     pooling |-> [min_connections |-> 1, max_connections |-> 1,
                  connection_timeout_ms |-> DefaultTimeoutMs],
     pool |-> 0]

\* No thread uses a pool directly: only the registry and clients act.
ThreadsIdle ==
    /\ pool = NewPool(1, 1)
    /\ InitThreads(SlotsPerThread)

InitMgr ==
    /\ hasher \in [StrVals -> 0..MaxStrHash]
    /\ pools_ = << >>
    /\ poolObjs = << >>
    /\ clients = [c \in 1..MaxClients |-> NoClient]
    /\ ThreadsIdle
    /\ CliIdle

FreeClients == {c \in 1..MaxClients : ~clients[c].live}

\* PoolManager::get_pool called by Client::Impl::Impl for client c (pooling
\* enabled): the key hash is looked up, and a ConnectionPool is constructed
\* and registered when it is absent.  A throwing constructor leaves no
\* client and no registry entry.
GetPool(c, key, pooling) ==
    /\ c \in FreeClients
    /\ \A d \in FreeClients : c <= d
    /\ LET key_hash == hash(key)
           found == find(pools_, key_hash)
           fresh == Len(poolObjs) + 1
       IN IF found # 0
          THEN /\ clients' = [clients EXCEPT ![c] =
                     [live |-> TRUE, key |-> key, pooling |-> pooling,
                      pool |-> found]]
               /\ UNCHANGED <<pools_, poolObjs>>
          ELSE IF CtorAccepts(pooling.min_connections, pooling.max_connections)
          THEN /\ Len(poolObjs) < MaxPools
               /\ poolObjs' = Append(poolObjs,
                     [key |-> key,
                      p |-> NewPool(pooling.min_connections,
                                    pooling.max_connections)])
               /\ pools_' = [h \in DOMAIN pools_ \cup {key_hash} |->
                               IF h = key_hash THEN fresh ELSE pools_[h]]
               /\ clients' = [clients EXCEPT ![c] =
                     [live |-> TRUE, key |-> key, pooling |-> pooling,
                      pool |-> fresh]]
          ELSE UNCHANGED <<pools_, poolObjs, clients>>
    /\ UNCHANGED hasher

\* Client::Impl::Impl with pooling.enabled: pool = get_pool(auth, sql,
\* pooling).
BuildClient(c, key, pooling) ==
    /\ GetPool(c, key, pooling)
    /\ UNCHANGED <<poolVars, cliVars>>

\* Client::connect on a pooled client: pool->warm_up().
ClientConnect(c) ==
    /\ clients[c].live
    /\ LET i == clients[c].pool
           p == poolObjs[i].p
       IN IF p.shutdown_
          THEN UNCHANGED poolObjs
          ELSE \E k \in 0..Missing(p) :
                  poolObjs' = [poolObjs EXCEPT ![i].p =
                     IF k < Missing(p)
                     THEN create_failed(warm_up(p, p.total_connections_, k))
                     ELSE warm_up(p, p.total_connections_, k)]
    /\ UNCHANGED <<hasher, pools_, clients>>
    /\ UNCHANGED <<poolVars, cliVars>>

\* Client::~Client: the client's shared_ptr to the pool is dropped.
DestroyClient(c) ==
    /\ clients[c].live
    /\ clients' = [clients EXCEPT ![c] = NoClient]
    /\ UNCHANGED <<hasher, pools_, poolObjs>>
    /\ UNCHANGED <<poolVars, cliVars>>

\* PoolManager::shutdown_all
ShutdownAll ==
    /\ poolObjs' = [i \in 1..Len(poolObjs) |->
                      IF i \in Registered
                      THEN [poolObjs[i] EXCEPT !.p = shutdown(@)]
                      ELSE poolObjs[i]]
    /\ pools_' = << >>
    /\ UNCHANGED <<hasher, clients>>
    /\ UNCHANGED <<poolVars, cliVars>>

NextMgr ==
    \/ \E c \in 1..MaxClients : \E key \in Keys : \E pooling \in PoolingVals :
          BuildClient(c, key, pooling)
    \/ \E c \in 1..MaxClients : ClientConnect(c)
    \/ \E c \in 1..MaxClients : DestroyClient(c)
    \/ ShutdownAll

MgrSpec == InitMgr /\ [][NextMgr]_vars

\* ---------------------------------------- the registry, with what build() throws
\* Client::Builder::build() for a pooled client, as its caller sees it: the
\* client, or the std::invalid_argument of the ConnectionPool constructor,
\* which get_pool and Impl::Impl let through.
TryBuild(c, key, pooling) ==
    /\ GetPool(c, key, pooling)
    /\ raised' =
          IF /\ find(pools_, hash(key)) = 0
             /\ ~CtorAccepts(pooling.min_connections, pooling.max_connections)
          THEN Error("invalid_argument",
                     <<"min_connections cannot exceed max_connections">>)
          ELSE NoError
    /\ UNCHANGED <<builder, cli, rt, query, driver, log>>
    /\ UNCHANGED <<poolVars, connVars, envVars>>

\* One build of the library: the hash of a string is its number, reduced to
\* the range of the hash values.
InitReg ==
    /\ InitMgr
    /\ hasher = [a \in StrVals |-> (a - 1) % (MaxStrHash + 1)]

NextReg ==
    \/ \E c \in 1..MaxClients : \E key \in Keys : \E pooling \in PoolingVals :
          TryBuild(c, key, pooling)
    \/ \E c \in 1..MaxClients : ClientConnect(c)
    \/ \E c \in 1..MaxClients : DestroyClient(c)
    \/ ShutdownAll

RegSpec == InitReg /\ [][NextReg]_vars

\* ====================================================================
\* Client (src/src/core/client.cpp): builder, connect, retry, query
\* ====================================================================
\* The token the caller configures, two characters long.
Token == <<"s1", "s2">>

\* AuthConfig values: one set through set_token(), one whose token field was
\* assigned directly (secure_token_ stays empty), and the invalid ones.
ValidAuth ==
    [host |-> <<"host">>, token |-> Token, secure_token_ |-> Token,
     timeout_seconds |-> DefaultTimeoutSeconds]
AuthVals ==
    {ValidAuth,
     [ValidAuth EXCEPT !.secure_token_ = << >>],
     [ValidAuth EXCEPT !.host = << >>],
     [ValidAuth EXCEPT !.token = << >>, !.secure_token_ = << >>],
     [ValidAuth EXCEPT !.timeout_seconds = 0],
     [ValidAuth EXCEPT !.timeout_seconds = -1]}
ValidSql ==
    [http_path |-> <<"/sql">>, odbc_driver_name |-> <<"Simba Spark ODBC Driver">>]
SqlVals ==
    {ValidSql,
     [ValidSql EXCEPT !.http_path = << >>],
     [ValidSql EXCEPT !.odbc_driver_name = << >>]}
\* PoolingConfig values: disabled, enabled, enabled with min > max.
ClientPoolingVals ==
    {DefaultPooling,
     [DefaultPooling EXCEPT !.enabled = TRUE],
     [DefaultPooling EXCEPT !.enabled = TRUE, !.min_connections = 2,
                            !.max_connections = 1]}
\* RetryConfig values: the defaults, every max_attempts within the bound,
\* and configurations that reach the cap, truncate, shrink the delay, or
\* fail RetryConfig::is_valid.
RetryVals ==
    {[DefaultRetry EXCEPT !.max_attempts = n] : n \in 0..MaxAttempts}
    \cup
    {DefaultRetry,
     [DefaultRetry EXCEPT !.enabled = FALSE],
     [DefaultRetry EXCEPT !.retry_on_timeout = FALSE],
     [DefaultRetry EXCEPT !.retry_on_connection_lost = FALSE],
     [DefaultRetry EXCEPT !.max_backoff_ms = DefaultInitialBackoffMs + 50],
     [DefaultRetry EXCEPT !.initial_backoff_ms = 3,
                          !.backoff_multiplier = [num |-> 3, den |-> 2]],
     [DefaultRetry EXCEPT !.backoff_multiplier = [num |-> 1, den |-> 2]],
     [DefaultRetry EXCEPT !.initial_backoff_ms = 0],
     [DefaultRetry EXCEPT !.initial_backoff_ms = DefaultMaxBackoffMs,
                          !.max_backoff_ms = DefaultInitialBackoffMs],
     [DefaultRetry EXCEPT !.backoff_multiplier = [num |-> 0, den |-> 1]],
     [DefaultRetry EXCEPT !.backoff_multiplier = [num |-> -1, den |-> 1]]}

\* AuthConfig::is_valid, SQLConfig::is_valid, PoolingConfig::is_valid,
\* RetryConfig::is_valid (src/src/core/config.cpp).
AuthConfig_is_valid_lax(a) == TRUE
AuthConfig_is_valid(a) ==
    a.host # << >> /\ a.token # << >> /\ a.timeout_seconds > 0
SQLConfig_is_valid(q) ==
    q.http_path # << >> /\ q.odbc_driver_name # << >>
PoolingConfig_is_valid(c) ==
    /\ c.min_connections > 0
    /\ c.max_connections >= c.min_connections
    /\ c.connection_timeout_ms > 0
RetryConfig_is_valid(r) ==
    /\ r.max_attempts > 0
    /\ r.initial_backoff_ms > 0
    /\ r.backoff_multiplier.num > 0
    /\ r.max_backoff_ms >= r.initial_backoff_ms

\* ------------------------------------------------------------ error texts
\* std::string::find of a one-symbol pattern from position from: the index
\* found, 0 for npos.
Find(str, sym, from) ==
    LET hits == {i \in from..Len(str) : str[i] = sym}
    IN IF hits = {} THEN 0
       ELSE CHOOSE i \in hits : \A j \in hits : i <= j

\* The while loop of sanitize_error_message: every occurrence of the token,
\* searched left to right from behind the previous replacement.
RECURSIVE ReplaceToken(_, _)
ReplaceToken(str, tok) ==
    IF Len(str) < Len(tok) THEN str
    ELSE IF SubSeq(str, 1, Len(tok)) = tok
         THEN <<"[REDACTED]">>
                 \o ReplaceToken(SubSeq(str, Len(tok) + 1, Len(str)), tok)
         ELSE <<Head(str)>> \o ReplaceToken(Tail(str), tok)

\* The PWD= part of sanitize_error_message: the value after the first PWD=,
\* up to the next ';' or the end of the text.
RedactPwd(str) ==
    LET pwd_pos == Find(str, "PWD=", 1)
    IN IF pwd_pos = 0 THEN str
       ELSE LET start == pwd_pos + 1
                semi == Find(str, ";", start)
                end == IF semi = 0 THEN Len(str) + 1 ELSE semi
            IN IF end > start
               THEN SubSeq(str, 1, start - 1) \o <<"[REDACTED]">>
                       \o SubSeq(str, end, Len(str))
               ELSE str

\* Client::Impl::sanitize_error_message
sanitize_error_message(auth, error) ==
    LET token_to_redact == auth.secure_token_
    IN RedactPwd(IF token_to_redact # << >>
                 THEN ReplaceToken(error, token_to_redact)
                 ELSE error)

\* The symbols is_error_retryable searches for, by class.
TimeoutMarks == {"timeout", "Timeout", "TIMEOUT", "HYT00", "HYT01"}
ConnectionLostMarks ==
    {"Connection refused", "Connection reset", "Connection lost",
     "Connection closed", "Broken pipe", "No route to host",
     "Network is unreachable", "08S01", "08003", "08006", "08007", "08004"}
TransientMarks ==
    {"Service Unavailable", "Too Many Requests", "503", "429", "502", "504",
     "HY000"}
\* The symbols of the last block of is_error_retryable, which returns false.
NonRetryableMarks ==
    {"28000", "42000", "42S02", "42S22", "23000", "HY013", "Authentication",
     "Permission denied", "Access denied"}
Has(error, marks) == \E i \in DOMAIN error : error[i] \in marks

\* Client::Impl::is_error_retryable
is_error_retryable_always(retry, error) == TRUE
is_error_retryable_any_connection(retry, error) ==
    IF retry.retry_on_timeout /\ Has(error, TimeoutMarks) THEN TRUE
    ELSE IF /\ retry.retry_on_connection_lost
            /\ \/ Has(error, ConnectionLostMarks)
               \/ Has(error, {"ConnectionPool has been shut down"})
    THEN TRUE
    ELSE Has(error, TransientMarks)
is_error_retryable_flagless(retry, error) ==
    Has(error, TimeoutMarks \cup ConnectionLostMarks \cup TransientMarks)
is_error_retryable(retry, error) ==
    IF retry.retry_on_timeout /\ Has(error, TimeoutMarks) THEN TRUE
    ELSE IF retry.retry_on_connection_lost /\ Has(error, ConnectionLostMarks)
    THEN TRUE
    ELSE IF Has(error, TransientMarks) THEN TRUE
    ELSE FALSE

\* What the ODBC driver may report when an operation fails: a timeout, a
\* lost connection whose text carries the token, a transient failure that
\* echoes two connection-string fragments, an authorization failure that
\* echoes one, and a text of no known class.
ErrorTexts ==
    {<<"HYT00">>,
     <<"08S01", "s1", "s2">>,
     <<"503", "PWD=", "x", ";", "PWD=", "x">>,
     <<"28000", "PWD=", "s1", "s2">>,
     <<"unknown">>}
\* What SQLDriverConnect may report.
ConnectErrorTexts ==
    {<<"08001", "PWD=", "s1", "s2", ";">>,
     <<"28000", "UID=token", ";", "PWD=", "s1", "s2">>}

\* --------------------------------------------------------------- backoff
\* attempt >= retry.max_attempts
max_attempts_reached_late(attempt, retry) == attempt > retry.max_attempts
max_attempts_reached(attempt, retry) == attempt >= retry.max_attempts

Min(a, b) == IF a <= b THEN a ELSE b

\* static_cast<size_t>(backoff_ms * jitter), jitter in percent.
JitterVals == {JitterLoPct, 100, JitterHiPct}
Jittered(backoff_ms, pct) == (backoff_ms * pct) \div 100

\* The values backoff_ms can take after
\*   backoff_ms = std::min(static_cast<size_t>(backoff_ms * multiplier), max).
\* Converting a negative double to size_t is undefined: builds produce 0
\* (saturating conversion) or a huge value, which the min turns into the cap.
NextBackoff(retry, backoff_ms) ==
    LET m == retry.backoff_multiplier
    IN IF m.num < 0 /\ (backoff_ms * (0 - m.num)) \div m.den >= 1
       THEN {0, retry.max_backoff_ms}
       ELSE IF m.num < 0 THEN {0}
       ELSE {Min((backoff_ms * m.num) \div m.den, retry.max_backoff_ms)}

\* ----------------------------------------------------------- driver calls
Ev(fn) == [fn |-> fn, text |-> << >>, index |-> 0]
EvText(fn, text) == [fn |-> fn, text |-> text, index |-> 0]
EvBind(i, value) == [fn |-> "SQLBindParameter", text |-> value, index |-> i]


\* Client::Impl::connect for a client that is not connected: the calls it
\* makes, what it logs and what it throws.
ConnectOutcomes ==
    {[r |-> "ok", text |-> << >>], [r |-> "no_driver", text |-> << >>]}
    \cup {[r |-> "refused", text |-> e] : e \in ConnectErrorTexts}
ImplConnect(auth, o) ==
    IF o.r = "no_driver"
    THEN [ok |-> FALSE,
          calls |-> <<Ev("SQLDrivers")>>,
          logged |-> {<<"ODBC driver not found">>},
          error |-> Error("connection", <<"ODBC driver not found">>)]
    ELSE IF o.r = "refused"
    THEN [ok |-> FALSE,
          calls |-> <<Ev("SQLDrivers"), Ev("SQLDriverConnect")>>,
          logged |-> {sanitize_error_message(auth, o.text)},
          error |-> Error("connection",
                          <<"Failed to connect to Databricks: ">>
                             \o sanitize_error_message(auth, o.text))]
    ELSE [ok |-> TRUE,
          calls |-> <<Ev("SQLDrivers"), Ev("SQLDriverConnect")>>,
          logged |-> {},
          error |-> NoError]

\* ---------------------------------------------------------------- builder
WithAuth(a) ==
    /\ cli.state = "none"
    /\ builder' = [builder EXCEPT !.auth_ = [set |-> TRUE, v |-> a]]
    /\ UNCHANGED <<cli, rt, query, driver, log, raised>>
    /\ UNCHANGED <<poolVars, mgrVars, connVars, envVars>>
WithSql(q) ==
    /\ cli.state = "none"
    /\ builder' = [builder EXCEPT !.sql_ = [set |-> TRUE, v |-> q]]
    /\ UNCHANGED <<cli, rt, query, driver, log, raised>>
    /\ UNCHANGED <<poolVars, mgrVars, connVars, envVars>>
WithPooling(c) ==
    /\ cli.state = "none"
    /\ builder' = [builder EXCEPT !.pooling_ = [set |-> TRUE, v |-> c]]
    /\ UNCHANGED <<cli, rt, query, driver, log, raised>>
    /\ UNCHANGED <<poolVars, mgrVars, connVars, envVars>>
WithRetry(r) ==
    /\ cli.state = "none"
    /\ builder' = [builder EXCEPT !.retry_ = [set |-> TRUE, v |-> r]]
    /\ UNCHANGED <<cli, rt, query, driver, log, raised>>
    /\ UNCHANGED <<poolVars, mgrVars, connVars, envVars>>
WithAutoConnect(b) ==
    /\ cli.state = "none"
    /\ builder' = [builder EXCEPT !.auto_connect_ = b]
    /\ UNCHANGED <<cli, rt, query, driver, log, raised>>
    /\ UNCHANGED <<poolVars, mgrVars, connVars, envVars>>

\* The constructor threw: no Client exists.
BuildFails(error, calls, logged) ==
    /\ cli' = [NoCli EXCEPT !.state = "failed"]
    /\ driver' = calls
    /\ log' = logged
    /\ raised' = error
\* The constructor returned.
Built(impl, calls, logged) ==
    /\ cli' = impl
    /\ driver' = calls
    /\ log' = logged
    /\ raised' = NoError

\* Client::Builder::build, with Client::Client and Client::Impl::Impl, called
\* on a temporary Builder as in Client::Builder().with_auth(..)...build(): the
\* builder is gone at the end of the expression.
\* registered: the registry already holds a pool for this configuration;
\* alloc_ok: the ODBC handles could be allocated; o: what connect() meets.
Build(registered, alloc_ok, o) ==
    /\ cli.state = "none"
    /\ IF ~builder.auth_.set
       THEN BuildFails(Error("config", <<"AuthConfig is required">>), << >>, {})
       ELSE IF ~builder.sql_.set
       THEN BuildFails(Error("config", <<"SQLConfig is required">>), << >>, {})
       ELSE
         LET auth == builder.auth_.v
             sql == builder.sql_.v
             pooling == IF builder.pooling_.set THEN builder.pooling_.v
                        ELSE DefaultPooling
             retry == IF builder.retry_.set THEN builder.retry_.v
                      ELSE DefaultRetry
             impl == [state |-> "built", auth |-> auth, sql |-> sql,
                      pooling |-> pooling, retry |-> retry,
                      pooled |-> pooling.enabled, connected |-> FALSE]
         IN IF ~AuthConfig_is_valid(auth)
            THEN BuildFails(Error("config", <<"Invalid AuthConfig">>), << >>,
                            {<<"Invalid AuthConfig">>})
            ELSE IF ~SQLConfig_is_valid(sql)
            THEN BuildFails(Error("config", <<"Invalid SQLConfig">>), << >>,
                            {<<"Invalid SQLConfig">>})
            ELSE IF pooling.enabled
            THEN IF registered \/ CtorAccepts(pooling.min_connections,
                                              pooling.max_connections)
                 THEN Built(impl, <<Ev("get_pool")>>, {})
                 ELSE BuildFails(Error("invalid_argument",
                                       <<"min_connections > max_connections">>),
                                 <<Ev("get_pool")>>, {})
            ELSE IF ~alloc_ok
            THEN BuildFails(Error("odbc", <<"Failed to allocate ODBC handle">>),
                            <<Ev("SQLAllocHandle")>>,
                            {<<"Failed to allocate ODBC handle">>})
            ELSE IF builder.auto_connect_
            THEN LET c == ImplConnect(auth, o)
                 IN IF c.ok
                    THEN Built([impl EXCEPT !.connected = TRUE],
                               <<Ev("SQLAllocHandle")>> \o c.calls, c.logged)
                    ELSE BuildFails(c.error,
                                    <<Ev("SQLAllocHandle")>> \o c.calls, c.logged)
            ELSE Built(impl, <<Ev("SQLAllocHandle")>>, {})
    /\ builder' = NewBuilder
    /\ UNCHANGED <<rt, query>>
    /\ UNCHANGED <<poolVars, mgrVars, connVars, envVars>>

\* Client::connect: pool->warm_up() for a pooled client, whose connections
\* are clients built from the same AuthConfig; Impl::connect otherwise.
Connect(o) ==
    /\ cli.state = "built"
    /\ rt.phase # "sleeping"
    /\ IF ~cli.pooled /\ cli.connected
       THEN /\ driver' = << >>
            /\ log' = {}
            /\ raised' = NoError
            /\ UNCHANGED cli
       ELSE LET c == ImplConnect(cli.auth, o)
            IN /\ driver' = IF cli.pooled THEN <<Ev("warm_up")>> \o c.calls
                            ELSE c.calls
               /\ log' = c.logged
               /\ raised' = c.error
               /\ cli' = IF cli.pooled THEN cli
                         ELSE [cli EXCEPT !.connected = c.ok]
    /\ rt' = NoCall
    /\ query' = NoQuery
    /\ UNCHANGED builder
    /\ UNCHANGED <<poolVars, mgrVars, connVars, envVars>>

\* ------------------------------------------------------ execute_with_retry
\* What one invocation of the operation does: it returns, or it throws a
\* std::runtime_error with one of the texts.
OpOutcomes ==
    {[ok |-> TRUE, text |-> << >>]}
    \cup {[ok |-> FALSE, text |-> e] : e \in ErrorTexts}

\* One pass through the while(true) loop of execute_with_retry, from the
\* invocation of the operation to the return, the throw, or the start of the
\* sleep; frame is the call's state at the top of the loop, logged what the
\* call has logged so far, o what the operation does and j the jitter drawn.
Attempt(frame, logged, o, j) ==
    LET called == [frame EXCEPT !.calls = @ + 1]
    IN IF o.ok
       THEN /\ rt' = [called EXCEPT !.phase = "returned"]
            /\ log' = logged
            /\ raised' = NoError
       ELSE LET attempt == frame.attempt + 1
                error_msg == o.text
                caught == [called EXCEPT !.attempt = attempt,
                                         !.last = error_msg]
                sanitized_error == sanitize_error_message(cli.auth, error_msg)
            IN IF \/ ~is_error_retryable(cli.retry, error_msg)
                  \/ max_attempts_reached(attempt, cli.retry)
               THEN /\ rt' = [caught EXCEPT !.phase = "thrown"]
                    /\ log' = logged \cup {sanitized_error}
                    /\ raised' =
                         IF max_attempts_reached(attempt, cli.retry)
                         THEN [kind |-> "exhausted", attempts |-> attempt,
                               text |-> sanitized_error]
                         ELSE Error("rethrown", error_msg)
               ELSE /\ rt' = [caught EXCEPT
                                !.phase = "sleeping",
                                !.sleeps = Append(@,
                                   [base |-> frame.backoff_ms,
                                    slept |-> Jittered(frame.backoff_ms, j)])]
                    /\ log' = logged \cup {error_msg}
                    /\ raised' = NoError

\* if (!retry.enabled) return operation();
RunsDirect_never(retry) == FALSE
RunsDirect(retry) == ~retry.enabled

\* Client::query with the operation taken as a whole: the call and its
\* first invocation of the operation.
Query(o, j) ==
    /\ cli.state = "built"
    /\ rt.phase \in {"idle", "returned", "thrown"}
    /\ IF RunsDirect(cli.retry)
       THEN /\ rt' = [NoCall EXCEPT
                        !.phase = IF o.ok THEN "returned" ELSE "thrown",
                        !.calls = 1,
                        !.last = o.text]
            /\ log' = {}
            /\ raised' = IF o.ok THEN NoError ELSE Error("direct", o.text)
       ELSE Attempt([NoCall EXCEPT
                       !.phase = "running",
                       !.backoff_ms = cli.retry.initial_backoff_ms],
                    {}, o, j)
    /\ query' = [sql |-> <<"SELECT 1">>, params |-> << >>]
    /\ driver' = << >>
    /\ UNCHANGED <<builder, cli>>
    /\ UNCHANGED <<poolVars, mgrVars, connVars, envVars>>

\* sleep_for returns: the next backoff is computed and the loop goes round.
Wake(o, j) ==
    /\ rt.phase = "sleeping"
    /\ \E b \in NextBackoff(cli.retry, rt.backoff_ms) :
          Attempt([rt EXCEPT !.phase = "running", !.backoff_ms = b], log, o, j)
    /\ UNCHANGED <<builder, cli, query, driver>>
    /\ UNCHANGED <<poolVars, mgrVars, connVars, envVars>>

InitClient ==
    /\ ThreadsIdle
    /\ MgrIdle
    /\ CliIdle

NextClient ==
    \/ \E a \in AuthVals : WithAuth(a)
    \/ \E q \in SqlVals : WithSql(q)
    \/ \E c \in ClientPoolingVals : WithPooling(c)
    \/ \E r \in RetryVals : WithRetry(r)
    \/ \E b \in BOOLEAN : WithAutoConnect(b)
    \/ \E registered \in BOOLEAN : \E alloc_ok \in BOOLEAN :
          \E o \in ConnectOutcomes : Build(registered, alloc_ok, o)
    \/ \E o \in ConnectOutcomes : Connect(o)
    \/ \E o \in OpOutcomes : \E j \in JitterVals : Query(o, j)
    \/ \E o \in OpOutcomes : \E j \in JitterVals : Wake(o, j)

ClientSpec == InitClient /\ [][NextClient]_vars

\* ------------------------------------------- classification of error texts
\* Texts made of the indicators is_error_retryable knows: each indicator
\* alone, a text of no known class, and texts that carry two indicators of
\* different classes.
ClassTexts ==
    {<<m>> : m \in TimeoutMarks \cup ConnectionLostMarks \cup TransientMarks
                   \cup NonRetryableMarks \cup {"unknown"}}
    \cup {<<n, m>> : n \in NonRetryableMarks,
                     m \in {"timeout", "Connection reset", "HY000"}}
    \cup {<<"HYT00", "08S01">>, <<"Broken pipe", "429">>}
ClassOutcomes ==
    {[ok |-> TRUE, text |-> << >>]}
    \cup {[ok |-> FALSE, text |-> e] : e \in ClassTexts}

\* The RetryConfig values is_error_retryable distinguishes: it reads
\* retry_on_timeout and retry_on_connection_lost only.  One retry is allowed.
FlagRetryVals ==
    {[DefaultRetry EXCEPT !.max_attempts = 2,
                          !.retry_on_timeout = a,
                          !.retry_on_connection_lost = b] :
        a \in BOOLEAN, b \in BOOLEAN}

\* A client built without pool for each of these RetryConfig values.
InitRetry ==
    /\ ThreadsIdle
    /\ MgrIdle
    /\ builder = NewBuilder
    /\ \E r \in FlagRetryVals :
          cli = [state |-> "built", auth |-> ValidAuth, sql |-> ValidSql,
                 pooling |-> DefaultPooling, retry |-> r,
                 pooled |-> FALSE, connected |-> FALSE]
    /\ rt = NoCall
    /\ query = NoQuery
    /\ driver = <<Ev("SQLAllocHandle")>>
    /\ log = {}
    /\ raised = NoError
    /\ ConnIdle
    /\ EnvIdle

NextRetry ==
    \/ \E o \in ClassOutcomes : Query(o, 100)
    \/ \E o \in ClassOutcomes : Wake(o, 100)

RetrySpec == InitRetry /\ [][NextRetry]_vars

\* --------------------------------------------- query on the driver boundary
SqlTexts == {<<"SELECT 1">>, <<"SELECT * FROM t WHERE a = ", "?">>}
ParamVals == {<<"1">>, <<"'; DROP TABLE users; --">>}
ParamLists == UNION {[1..n -> ParamVals] : n \in 0..MaxParams}

\* The statement text Client::query passes to SQLPrepare.
SQLPrepareText_inlined(sql, params) == sql \o params[1]
SQLPrepareText(sql, params) == sql

\* The driver calls of one invocation of the operation of Client::query on
\* a connected client, when every call succeeds.
DriverCalls(sql, params) ==
    <<Ev("SQLAllocHandle")>>
    \o (IF params = << >>
        THEN <<EvText("SQLExecDirect", sql)>>
        ELSE <<EvText("SQLPrepare", SQLPrepareText(sql, params))>>
             \o [i \in 1..Len(params) |-> EvBind(i, params[i])]
             \o <<Ev("SQLExecute")>>)
    \o <<Ev("SQLNumResultCols"), Ev("SQLFetch")>>

\* The text of the std::runtime_error thrown when driver call ev fails and
\* get_odbc_error reports e.
CallError(ev, e) ==
    IF ev.fn = "SQLAllocHandle" THEN <<"Failed to allocate statement handle">>
    ELSE IF ev.fn = "SQLExecDirect" THEN <<"Query execution failed: ">> \o e
    ELSE IF ev.fn = "SQLPrepare" THEN <<"Failed to prepare statement: ">> \o e
    ELSE IF ev.fn = "SQLBindParameter" THEN <<"Failed to bind parameter">> \o e
    ELSE IF ev.fn = "SQLExecute" THEN <<"Query execution failed: ">> \o e
    ELSE <<"Failed to get column count">>

\* Client::query(sql, params) on a client without pool and with retries
\* disabled: ensure_connected, then the driver calls up to the first that
\* fails (failAt = 0: none fails; SQLFetch ends the loop, it never throws).
RunQuery(sql, params, failAt, o, e) ==
    /\ cli.state = "built"
    /\ ~cli.pooled
    /\ ~cli.retry.enabled
    /\ query' = [sql |-> sql, params |-> params]
    /\ LET c == ImplConnect(cli.auth, o)
           all == DriverCalls(sql, params)
       IN IF ~cli.connected /\ ~c.ok
          THEN /\ driver' = c.calls
               /\ log' = c.logged
               /\ raised' = Error("direct", c.error.text)
               /\ UNCHANGED cli
          ELSE /\ failAt \in 0..(Len(all) - 1)
               /\ driver' = (IF cli.connected THEN << >> ELSE c.calls)
                            \o (IF failAt = 0 THEN all
                                ELSE SubSeq(all, 1, failAt))
               /\ log' = {}
               /\ raised' = IF failAt = 0 THEN NoError
                            ELSE Error("direct", CallError(all[failAt], e))
               /\ cli' = [cli EXCEPT !.connected = TRUE]
    /\ rt' = [NoCall EXCEPT
                !.phase = IF raised'.kind = "none" THEN "returned" ELSE "thrown",
                !.calls = 1,
                !.last = raised'.text]
    /\ UNCHANGED builder
    /\ UNCHANGED <<poolVars, mgrVars, connVars, envVars>>

\* Impl::disconnect: if (connected && hdbc != SQL_NULL_HDBC); a client that
\* was built without pool has its handles until it is destroyed.
Disconnects_always(c) == TRUE
Disconnects(c) == c.connected

\* Client::disconnect on a client without pool: SQLDisconnect and
\* connected = false, or nothing at all.
Disconnect ==
    /\ cli.state = "built"
    /\ ~cli.pooled
    /\ IF Disconnects(cli)
       THEN /\ cli' = [cli EXCEPT !.connected = FALSE]
            /\ driver' = <<Ev("SQLDisconnect")>>
            /\ links' = 0
            /\ act' = [a \in Activities |-> [act[a] EXCEPT !.waited = FALSE]]
       ELSE /\ driver' = << >>
            /\ UNCHANGED <<cli, links, act>>
    /\ log' = {}
    /\ raised' = NoError
    /\ rt' = NoCall
    /\ query' = NoQuery
    /\ UNCHANGED <<connection_mutex, async_connect_future, spawned>>
    /\ UNCHANGED builder
    /\ UNCHANGED <<poolVars, mgrVars, envVars>>

\* A client built without pool, with retries disabled and no auto-connect.
InitQuery ==
    /\ ThreadsIdle
    /\ MgrIdle
    /\ builder = NewBuilder
    /\ cli = [state |-> "built", auth |-> ValidAuth, sql |-> ValidSql,
              pooling |-> DefaultPooling,
              retry |-> [DefaultRetry EXCEPT !.enabled = FALSE],
              pooled |-> FALSE, connected |-> FALSE]
    /\ rt = NoCall
    /\ query = NoQuery
    /\ driver = <<Ev("SQLAllocHandle")>>
    /\ log = {}
    /\ raised = NoError
    /\ ConnIdle
    /\ EnvIdle

\* What get_odbc_error may report for a failed statement call.
StatementErrorTexts == {<<"42000">>, <<"HY000", "PWD=", "s1", "s2">>}

NextQuery ==
    \/ \E sql \in SqlTexts : \E params \in ParamLists :
          \E failAt \in 0..(MaxParams + 4) :
             \E o \in IF cli.connected THEN {[r |-> "ok", text |-> << >>]}
                       ELSE ConnectOutcomes :
                \E e \in IF failAt = 0 THEN {<<"42000">>}
                          ELSE StatementErrorTexts :
                   RunQuery(sql, params, failAt, o, e)
    \/ Disconnect

QuerySpec == InitQuery /\ [][NextQuery]_vars

\* ------------------------------------- parameterised query under retries
\* One invocation of the operation of Client::query on a connected client
\* without pool: the driver calls up to the first that fails (failAt = 0:
\* none fails), and what the invocation returns or throws.
Invocation(sql, params, failAt, e) ==
    LET all == DriverCalls(sql, params)
    IN [calls |-> IF failAt = 0 THEN all ELSE SubSeq(all, 1, failAt),
        o |-> IF failAt = 0 THEN [ok |-> TRUE, text |-> << >>]
              ELSE [ok |-> FALSE, text |-> CallError(all[failAt], e)]]

\* The positions of the SQLBindParameter calls among the driver calls.
BindCalls(sql, params) ==
    {i \in 1..Len(DriverCalls(sql, params)) :
        DriverCalls(sql, params)[i].fn = "SQLBindParameter"}

\* Client::query(sql, params) through execute_with_retry: the call and the
\* first invocation of the operation.
QueryParams(sql, params, failAt, e, j) ==
    /\ cli.state = "built"
    /\ ~cli.pooled
    /\ cli.connected
    /\ rt.phase \in {"idle", "returned", "thrown"}
    /\ failAt \in {0} \cup BindCalls(sql, params)
    /\ LET inv == Invocation(sql, params, failAt, e)
       IN /\ IF RunsDirect(cli.retry)
             THEN /\ rt' = [NoCall EXCEPT
                              !.phase = IF inv.o.ok THEN "returned"
                                        ELSE "thrown",
                              !.calls = 1,
                              !.last = inv.o.text]
                  /\ log' = {}
                  /\ raised' = IF inv.o.ok THEN NoError
                               ELSE Error("direct", inv.o.text)
             ELSE Attempt([NoCall EXCEPT
                             !.phase = "running",
                             !.backoff_ms = cli.retry.initial_backoff_ms],
                          {}, inv.o, j)
          /\ driver' = inv.calls
    /\ query' = [sql |-> sql, params |-> params]
    /\ UNCHANGED <<builder, cli>>
    /\ UNCHANGED <<poolVars, mgrVars, connVars, envVars>>

\* sleep_for returns and the operation of the same query() is invoked again.
WakeParams(failAt, e, j) ==
    /\ rt.phase = "sleeping"
    /\ failAt \in {0} \cup BindCalls(query.sql, query.params)
    /\ LET inv == Invocation(query.sql, query.params, failAt, e)
       IN /\ \E b \in NextBackoff(cli.retry, rt.backoff_ms) :
                Attempt([rt EXCEPT !.phase = "running", !.backoff_ms = b],
                        log, inv.o, j)
          /\ driver' = driver \o inv.calls
    /\ UNCHANGED <<builder, cli, query>>
    /\ UNCHANGED <<poolVars, mgrVars, connVars, envVars>>

\* A connected client without pool, for each RetryConfig.
InitBind ==
    /\ ThreadsIdle
    /\ MgrIdle
    /\ builder = NewBuilder
    /\ \E r \in RetryVals :
          cli = [state |-> "built", auth |-> ValidAuth, sql |-> ValidSql,
                 pooling |-> DefaultPooling, retry |-> r,
                 pooled |-> FALSE, connected |-> TRUE]
    /\ rt = NoCall
    /\ query = NoQuery
    /\ driver = <<Ev("SQLAllocHandle"), Ev("SQLDrivers"), Ev("SQLDriverConnect")>>
    /\ log = {}
    /\ raised = NoError
    /\ ConnIdle
    /\ EnvIdle

\* What get_odbc_error may report for a failed SQLBindParameter.
BindErrorTexts == {<<"07006">>, <<"HY000", "Invalid parameter type">>}

NextBind ==
    \/ \E params \in ParamLists : \E failAt \in 0..(MaxParams + 2) :
          \E e \in BindErrorTexts :
             QueryParams(<<"SELECT * FROM t WHERE a = ", "?">>, params,
                         failAt, e, 100)
    \/ \E failAt \in 0..(MaxParams + 2) : \E e \in BindErrorTexts :
          WakeParams(failAt, e, 100)

BindSpec == InitBind /\ [][NextBind]_vars

\* --------------------------------- connect, connect_async and query racing
\* Client::Impl::connect is split where other threads can run: before the
\* lock_guard is obtained, and while SQLDriverConnect is in progress under
\* it.  ensure_connected reads async_connect_future and connected without
\* the mutex, so each read is a step of its own.
\* if (connected) return;
AlreadyConnected_never(c) == FALSE
AlreadyConnected(c) == c.connected

\* The shared state of task k is ready.
Ready(k) == act[k].at = "done"
\* async_connect_future.valid() holds and wait() on it would block.
Pending == async_connect_future # 0 /\ ~Ready(async_connect_future)

\* How activity a goes on when its Impl::connect() is over, normally
\* (thrown = FALSE) or by exception: Client::connect() returns or throws,
\* the task's shared state becomes ready, the operation of query() goes on
\* to its statement or throws.
AfterConnect(a, outcome, thrown) ==
    [act[a] EXCEPT
       !.at = IF act[a].op = "task" THEN "done"
              ELSE IF act[a].op = "query" /\ ~thrown THEN "exec"
              ELSE "idle",
       !.res = outcome]

\* Client::connect() on a client without pool: the call is made.
CallConnect(t) ==
    /\ cli.state = "built" /\ ~cli.pooled
    /\ act[t].at = "idle"
    /\ act' = [act EXCEPT ![t] = [NoAct EXCEPT !.op = "connect", !.at = "lock"]]
    /\ UNCHANGED <<connection_mutex, async_connect_future, spawned, links>>
    /\ UNCHANGED <<builder, cli, rt, query, driver, log, raised>>
    /\ UNCHANGED <<poolVars, mgrVars, envVars>>

\* Client::connect_async(): std::async launches the task that runs
\* impl_ptr->connect(); the assignment to async_connect_future follows.
CallConnectAsync(t) ==
    /\ cli.state = "built" /\ ~cli.pooled
    /\ act[t].at = "idle"
    /\ spawned < MaxTasks
    /\ LET k == NumThreads + spawned + 1
       IN act' = [act EXCEPT
                    ![t] = [NoAct EXCEPT !.op = "connect_async",
                                         !.at = "assign", !.saw = k],
                    ![k] = [NoAct EXCEPT !.op = "task", !.at = "lock"]]
    /\ spawned' = spawned + 1
    /\ UNCHANGED <<connection_mutex, async_connect_future, links>>
    /\ UNCHANGED <<builder, cli, rt, query, driver, log, raised>>
    /\ UNCHANGED <<poolVars, mgrVars, envVars>>

\* pimpl_->async_connect_future = std::async(...): the move assignment
\* releases the shared state held before, which blocks until that task is
\* over; then connect_async() returns.
AssignFuture(t) ==
    /\ act[t].at = "assign"
    /\ ~Pending
    /\ async_connect_future' = act[t].saw
    /\ act' = [act EXCEPT ![t].at = "idle", ![t].res = "launched"]
    /\ UNCHANGED <<connection_mutex, spawned, links>>
    /\ UNCHANGED <<builder, cli, rt, query, driver, log, raised>>
    /\ UNCHANGED <<poolVars, mgrVars, envVars>>

\* Impl::connect(): the lock_guard finds the mutex held.
LockBlocked(a) ==
    /\ act[a].at = "lock"
    /\ connection_mutex # 0
    /\ ~act[a].waited
    /\ act' = [act EXCEPT ![a].waited = TRUE]
    /\ UNCHANGED <<connection_mutex, async_connect_future, spawned, links>>
    /\ UNCHANGED <<builder, cli, rt, query, driver, log, raised>>
    /\ UNCHANGED <<poolVars, mgrVars, envVars>>

\* Impl::connect(): the lock_guard is obtained; the function returns at once
\* when connected, and starts SQLDriverConnect otherwise.
LockTaken(a) ==
    /\ act[a].at = "lock"
    /\ connection_mutex = 0
    /\ IF AlreadyConnected(cli)
       THEN /\ act' = [act EXCEPT ![a] = AfterConnect(a, "noop", FALSE)]
            /\ UNCHANGED connection_mutex
       ELSE /\ act' = [act EXCEPT ![a].at = "connecting"]
            /\ connection_mutex' = a
    /\ UNCHANGED <<async_connect_future, spawned, links>>
    /\ UNCHANGED <<builder, cli, rt, query, driver, log, raised>>
    /\ UNCHANGED <<poolVars, mgrVars, envVars>>

\* Impl::connect(): validate_driver_exists and SQLDriverConnect are over;
\* connected is set or the error is thrown, and the lock_guard is released.
DriverConnect(a, o) ==
    /\ act[a].at = "connecting"
    /\ connection_mutex = a
    /\ LET c == ImplConnect(cli.auth, o)
       IN IF c.ok
          THEN /\ cli' = [cli EXCEPT !.connected = TRUE]
               /\ links' = links + 1
               /\ act' = [act EXCEPT ![a] = AfterConnect(a, "connected", FALSE)]
          ELSE /\ act' = [act EXCEPT ![a] = AfterConnect(a, "failed", TRUE)]
               /\ UNCHANGED <<cli, links>>
    /\ connection_mutex' = 0
    /\ UNCHANGED <<async_connect_future, spawned>>
    /\ UNCHANGED <<builder, rt, query, driver, log, raised>>
    /\ UNCHANGED <<poolVars, mgrVars, envVars>>

\* Client::query() on a client without pool: the call is made and the
\* operation starts with ensure_connected().
CallQuery(t) ==
    /\ cli.state = "built" /\ ~cli.pooled
    /\ act[t].at = "idle"
    /\ act' = [act EXCEPT
                 ![t] = [NoAct EXCEPT
                           !.op = "query", !.at = "check_future",
                           !.saw = IF Pending THEN async_connect_future
                                   ELSE 0]]
    /\ UNCHANGED <<connection_mutex, async_connect_future, spawned, links>>
    /\ UNCHANGED <<builder, cli, rt, query, driver, log, raised>>
    /\ UNCHANGED <<poolVars, mgrVars, envVars>>

\* ensure_connected(): if (async_connect_future.valid()) wait();  the wait
\* is on the shared state the future held when it was read.
EnsureFuture(t) ==
    /\ act[t].at = "check_future"
    /\ act' = [act EXCEPT
                 ![t].at = IF Pending THEN "await" ELSE "check_connected",
                 ![t].saw = IF Pending THEN async_connect_future ELSE @]
    /\ UNCHANGED <<connection_mutex, async_connect_future, spawned, links>>
    /\ UNCHANGED <<builder, cli, rt, query, driver, log, raised>>
    /\ UNCHANGED <<poolVars, mgrVars, envVars>>

\* async_connect_future.wait() returns.
FutureReady(t) ==
    /\ act[t].at = "await"
    /\ Ready(act[t].saw)
    /\ act' = [act EXCEPT ![t].at = "check_connected"]
    /\ UNCHANGED <<connection_mutex, async_connect_future, spawned, links>>
    /\ UNCHANGED <<builder, cli, rt, query, driver, log, raised>>
    /\ UNCHANGED <<poolVars, mgrVars, envVars>>

\* ensure_connected(): if (!connected) connect();
EnsureConnected(t) ==
    /\ act[t].at = "check_connected"
    /\ act' = [act EXCEPT ![t].at = IF cli.connected THEN "exec" ELSE "lock"]
    /\ UNCHANGED <<connection_mutex, async_connect_future, spawned, links>>
    /\ UNCHANGED <<builder, cli, rt, query, driver, log, raised>>
    /\ UNCHANGED <<poolVars, mgrVars, envVars>>

\* The statement of query() is executed and query() returns.
Execute(t) ==
    /\ act[t].at = "exec"
    /\ act' = [act EXCEPT ![t].at = "idle", ![t].res = "executed"]
    /\ UNCHANGED <<connection_mutex, async_connect_future, spawned, links>>
    /\ UNCHANGED <<builder, cli, rt, query, driver, log, raised>>
    /\ UNCHANGED <<poolVars, mgrVars, envVars>>

NextConn ==
    \/ \E t \in Threads : CallConnect(t)
    \/ \E t \in Threads : CallConnectAsync(t)
    \/ \E t \in Threads : AssignFuture(t)
    \/ \E a \in Activities : LockBlocked(a)
    \/ \E a \in Activities : LockTaken(a)
    \/ \E a \in Activities : \E o \in ConnectOutcomes : DriverConnect(a, o)
    \/ \E t \in Threads : CallQuery(t)
    \/ \E t \in Threads : EnsureFuture(t)
    \/ \E t \in Threads : FutureReady(t)
    \/ \E t \in Threads : EnsureConnected(t)
    \/ \E t \in Threads : Execute(t)
    \/ Disconnect

ConnSpec == InitQuery /\ [][NextConn]_vars

\* ------------------------------------ AuthConfig loaders (core/config.cpp)
\* A line of the file and the value of an environment variable are texts;
\* blanks, '#', '[', ']', '=' and digits are symbols of their own.
Blank == {" ", "\t"}
RECURSIVE TrimLeft(_)
TrimLeft(str) ==
    IF str # << >> /\ Head(str) \in Blank THEN TrimLeft(Tail(str)) ELSE str
RECURSIVE TrimRight(_)
TrimRight(str) ==
    IF str # << >> /\ str[Len(str)] \in Blank
    THEN TrimRight(SubSeq(str, 1, Len(str) - 1))
    ELSE str
Trim(str) == TrimRight(TrimLeft(str))

\* AuthConfig::has_secure_token and AuthConfig::set_token (core/config.h).
has_secure_token(a) == a.secure_token_ # << >>
set_token(a, t) == [a EXCEPT !.token = t, !.secure_token_ = t]

Thrown(by, text) ==
    [ok |-> FALSE, by |-> by, config |-> DefaultAuth, error |-> text]
Returned(by, config) ==
    [ok |-> TRUE, by |-> by, config |-> config, error |-> << >>]

\* The body of the getline loop of from_profile for one line.
ParseLine(st, raw, profile) ==
    LET line == Trim(raw)
    IN IF line = << >> \/ Head(line) = "#" THEN st
       ELSE IF Head(line) = "[" /\ line[Len(line)] = "]"
       THEN [st EXCEPT
               !.in_profile = (SubSeq(line, 2, Len(line) - 1) = profile)]
       ELSE IF ~st.in_profile THEN st
       ELSE LET pos == Find(line, "=", 1)
            IN IF pos = 0 THEN st
               ELSE LET key == Trim(SubSeq(line, 1, pos - 1))
                        value == Trim(SubSeq(line, pos + 1, Len(line)))
                    IN IF key = <<"host">>
                       THEN [st EXCEPT !.config.host = value,
                                       !.found_host = TRUE]
                       ELSE IF key = <<"token">>
                       THEN [st EXCEPT !.config.token = value,
                                       !.found_token = TRUE]
                       ELSE st
RECURSIVE ParseLines(_, _, _)
ParseLines(st, lines, profile) ==
    IF lines = << >> THEN st
    ELSE ParseLines(ParseLine(st, Head(lines), profile), Tail(lines), profile)

\* AuthConfig::from_profile
from_profile(env, file, profile) ==
    IF ~env["HOME"].set
    THEN Thrown("from_profile", <<"HOME environment variable not set">>)
    ELSE IF ~file.exists
    THEN Thrown("from_profile", <<"Could not open ~/.databrickscfg">>)
    ELSE LET st == ParseLines([in_profile |-> FALSE, config |-> DefaultAuth,
                               found_host |-> FALSE, found_token |-> FALSE],
                              file.lines, profile)
         IN IF ~st.found_host \/ ~st.found_token
            THEN Thrown("from_profile",
                        <<"Profile [">> \o profile
                           \o <<"] missing required fields (host, token)">>)
            ELSE Returned("from_profile", st.config)

\* std::atoi: blanks, an optional sign, then the leading decimal digits.
DigitOf ==
    "0" :> 0 @@ "1" :> 1 @@ "2" :> 2 @@ "3" :> 3 @@ "4" :> 4 @@ "5" :> 5
    @@ "6" :> 6 @@ "7" :> 7 @@ "8" :> 8 @@ "9" :> 9
RECURSIVE AtoiDigits(_, _)
AtoiDigits(str, acc) ==
    IF str = << >> \/ Head(str) \notin DOMAIN DigitOf THEN acc
    ELSE AtoiDigits(Tail(str), acc * 10 + DigitOf[Head(str)])
atoi(str) ==
    LET t == TrimLeft(str)
    IN IF t # << >> /\ Head(t) = "-" THEN 0 - AtoiDigits(Tail(t), 0)
       ELSE IF t # << >> /\ Head(t) = "+" THEN AtoiDigits(Tail(t), 0)
       ELSE AtoiDigits(t, 0)

\* AuthConfig::from_env
from_env(env) ==
    LET host_env == IF env["DATABRICKS_HOST"].set THEN env["DATABRICKS_HOST"]
                    ELSE env["DATABRICKS_SERVER_HOSTNAME"]
        token_env == IF env["DATABRICKS_TOKEN"].set THEN env["DATABRICKS_TOKEN"]
                     ELSE env["DATABRICKS_ACCESS_TOKEN"]
        timeout_env == env["DATABRICKS_TIMEOUT"]
    IN IF ~host_env.set
       THEN Thrown("from_env", <<"DATABRICKS_HOST or DATABRICKS_SERVER_HOSTNAME environment variable not set">>)
       ELSE IF ~token_env.set
       THEN Thrown("from_env", <<"DATABRICKS_TOKEN or DATABRICKS_ACCESS_TOKEN environment variable not set">>)
       ELSE Returned("from_env",
               [DefaultAuth EXCEPT
                  !.host = host_env.v,
                  !.token = token_env.v,
                  !.timeout_seconds = IF timeout_env.set
                                      THEN atoi(timeout_env.v) ELSE @])

\* AuthConfig::from_environment
from_environment(env, file, profile) ==
    IF from_profile(env, file, profile).ok
    THEN from_profile(env, file, profile)
    ELSE IF from_env(env).ok THEN from_env(env)
    ELSE Thrown("from_environment",
                <<"Failed to load Databricks authentication configuration">>)

\* The files and environments of the tests, and variations of them.
SectionLine(name) == <<"[", name, "]">>
KeyLine(key, value) == <<key, " ", "=", " ">> \o value
DefaultSection ==
    <<SectionLine("DEFAULT"), KeyLine("host", <<"host">>),
      KeyLine("token", Token)>>
File(lines) == [exists |-> TRUE, lines |-> lines]
ProfileFiles ==
    {NoFile,
     File(DefaultSection),
     File(<<<<"#", "cfg">>, <<" ">>>> \o DefaultSection
          \o <<SectionLine("dev"), KeyLine("host", <<"dev-host">>),
               <<"\t", "token", "=", "d1", " ", "\t">>>>),
     File(<<SectionLine("DEFAULT"), KeyLine("host", <<"host">>)>>),
     File(<<KeyLine("token", Token), SectionLine("DEFAULT"),
            KeyLine("host", <<"host">>)>>),
     File(<<SectionLine("DEFAULT"), KeyLine("host", <<"host">>),
            <<"token", "=">>>>)}
Profiles == {<<"DEFAULT">>, <<"dev">>}

SetTo(v) == [set |-> TRUE, v |-> v]
NoEnv == [n \in EnvNames |-> Unset]
HomeEnv == [NoEnv EXCEPT !["HOME"] = SetTo(<<"/home/u">>)]
TestEnv ==
    [HomeEnv EXCEPT !["DATABRICKS_HOST"] = SetTo(<<"host">>),
                    !["DATABRICKS_TOKEN"] = SetTo(Token)]
EnvVals ==
    {NoEnv, HomeEnv, TestEnv,
     [TestEnv EXCEPT !["HOME"] = Unset],
     [HomeEnv EXCEPT !["DATABRICKS_SERVER_HOSTNAME"] = SetTo(<<"host">>),
                     !["DATABRICKS_ACCESS_TOKEN"] = SetTo(Token)],
     [TestEnv EXCEPT !["DATABRICKS_ACCESS_TOKEN"] = SetTo(<<"d1">>)],
     [HomeEnv EXCEPT !["DATABRICKS_HOST"] = SetTo(<<"host">>)],
     [TestEnv EXCEPT !["DATABRICKS_TOKEN"] = SetTo(<< >>)],
     [TestEnv EXCEPT !["DATABRICKS_TIMEOUT"] = SetTo(<<"3", "0">>)],
     [TestEnv EXCEPT !["DATABRICKS_TIMEOUT"] = SetTo(<<" ", "-", "5", "s">>)],
     [TestEnv EXCEPT !["DATABRICKS_TIMEOUT"] = SetTo(<<"soon">>)]}

\* The test writes ~/.databrickscfg, or removes it.
WriteProfileFile(f) ==
    /\ home_cfg' = f
    /\ UNCHANGED <<environ, loaded>>
    /\ UNCHANGED <<builder, cli, rt, query, driver, log, raised>>
    /\ UNCHANGED <<poolVars, mgrVars, connVars>>
\* setenv / unsetenv
SetEnvironment(env) ==
    /\ environ' = env
    /\ UNCHANGED <<home_cfg, loaded>>
    /\ UNCHANGED <<builder, cli, rt, query, driver, log, raised>>
    /\ UNCHANGED <<poolVars, mgrVars, connVars>>
FromProfile(profile) ==
    /\ loaded' = from_profile(environ, home_cfg, profile)
    /\ UNCHANGED <<home_cfg, environ>>
    /\ UNCHANGED <<builder, cli, rt, query, driver, log, raised>>
    /\ UNCHANGED <<poolVars, mgrVars, connVars>>
FromEnv ==
    /\ loaded' = from_env(environ)
    /\ UNCHANGED <<home_cfg, environ>>
    /\ UNCHANGED <<builder, cli, rt, query, driver, log, raised>>
    /\ UNCHANGED <<poolVars, mgrVars, connVars>>
FromEnvironment(profile) ==
    /\ loaded' = from_environment(environ, home_cfg, profile)
    /\ UNCHANGED <<home_cfg, environ>>
    /\ UNCHANGED <<builder, cli, rt, query, driver, log, raised>>
    /\ UNCHANGED <<poolVars, mgrVars, connVars>>

NextLoad ==
    \/ \E f \in ProfileFiles : WriteProfileFile(f)
    \/ \E env \in EnvVals : SetEnvironment(env)
    \/ \E profile \in Profiles : FromProfile(profile)
    \/ FromEnv
    \/ \E profile \in Profiles : FromEnvironment(profile)

LoadSpec == InitClient /\ [][NextLoad]_vars

\* ====================================================================
\* Client::query, connect and disconnect of a pooled client
\* ====================================================================
\* The thread that calls the client; the other threads use the same pool
\* through other clients.
Caller == CHOOSE t \in Threads : \A u \in Threads : t <= u

\* if (pimpl_->pool)
UsesPool_never(c) == FALSE
UsesPool(c) == c.pooled

\* The operation given to execute_with_retry is over, with outcome o: the
\* call ends when retries are disabled, the loop goes on otherwise.
EndOperation(frame, logged, o, j) ==
    IF RunsDirect(cli.retry)
    THEN /\ rt' = [frame EXCEPT
                     !.phase = IF o.ok THEN "returned" ELSE "thrown",
                     !.calls = @ + 1,
                     !.last = o.text]
         /\ log' = logged
         /\ raised' = IF o.ok THEN NoError ELSE Error("direct", o.text)
    ELSE Attempt(frame, logged, o, j)

\* The operation of the pooled query() after a pass through the loop of
\* pool->acquire(): blocked in the wait, holding the PooledConnection, or
\* over with the exception of acquire().
AfterAcquire(frame, logged, j) ==
    IF pc'[Caller] = "waiting"
    THEN /\ rt' = [frame EXCEPT !.phase = "acquiring"]
         /\ log' = logged
         /\ raised' = NoError
    ELSE IF ret'.outcome \in {"reused", "created"}
    THEN /\ rt' = [frame EXCEPT !.phase = "holding"]
         /\ log' = logged
         /\ raised' = NoError
    ELSE EndOperation(frame, logged,
                      [ok |-> FALSE, text |-> ret'.error.what], j)

\* Client::query on a pooled client: execute_with_retry invokes the
\* operation, which calls pool->acquire().
PooledQuery(j) ==
    /\ cli.state = "built"
    /\ UsesPool(cli)
    /\ rt.phase \in {"idle", "returned", "thrown"}
    /\ pc[Caller] = "idle"
    /\ FreeSlots(Caller) # {}
    /\ AcquireLoop(Caller)
    /\ AfterAcquire([NoCall EXCEPT
                       !.phase = "running",
                       !.backoff_ms = cli.retry.initial_backoff_ms],
                    {}, j)
    /\ query' = [sql |-> <<"SELECT 1">>, params |-> << >>]
    /\ driver' = <<Ev("acquire")>>
    /\ UNCHANGED <<builder, cli>>
    /\ UNCHANGED <<mgrVars, connVars, envVars>>

\* cv_.wait_until returns in the acquire() of the client's operation.
PooledResume(j) ==
    /\ rt.phase = "acquiring"
    /\ WaitReturns(Caller)
    /\ AfterAcquire(rt, log, j)
    /\ UNCHANGED <<builder, cli, query, driver>>
    /\ UNCHANGED <<mgrVars, connVars, envVars>>

\* return pooled_conn->query(sql, params): the query of the pooled client's
\* connection returns or throws, and pooled_conn goes out of scope.
PooledRun(o, j) ==
    /\ rt.phase = "holding"
    /\ \E s \in Slots : Owner(s) = Caller /\ Release(Caller, s)
    /\ EndOperation(rt, log, o, j)
    /\ driver' = driver \o <<Ev("query"), Ev("return_connection")>>
    /\ UNCHANGED <<builder, cli, query>>
    /\ UNCHANGED <<mgrVars, connVars, envVars>>

\* sleep_for returns: the next backoff is computed and the operation is
\* invoked again.
PooledWake(j) ==
    /\ rt.phase = "sleeping"
    /\ UsesPool(cli)
    /\ \E b \in NextBackoff(cli.retry, rt.backoff_ms) :
          /\ AcquireLoop(Caller)
          /\ AfterAcquire([rt EXCEPT !.phase = "running", !.backoff_ms = b],
                          log, j)
    /\ driver' = Append(driver, Ev("acquire"))
    /\ UNCHANGED <<builder, cli, query>>
    /\ UNCHANGED <<mgrVars, connVars, envVars>>

\* Client::connect: pool->warm_up() for a pooled client, Impl::connect
\* otherwise.
PooledConnect ==
    /\ cli.state = "built"
    /\ rt.phase \in {"idle", "returned", "thrown"}
    /\ IF UsesPool(cli)
       THEN /\ WarmUpPool(Caller)
            /\ driver' = <<Ev("warm_up")>>
            /\ raised' = IF pool.shutdown_
                         THEN Error("runtime_error",
                                    <<"Cannot warm up: pool is shut down">>)
                         ELSE IF pool'.total_connections_ < pool.min_connections_
                         THEN Error("runtime_error", <<"create_connection">>)
                         ELSE NoError
            /\ UNCHANGED cli
       ELSE /\ cli' = [cli EXCEPT !.connected = TRUE]
            /\ driver' = <<Ev("SQLDrivers"), Ev("SQLDriverConnect")>>
            /\ raised' = NoError
            /\ UNCHANGED poolVars
    /\ rt' = NoCall
    /\ query' = NoQuery
    /\ log' = {}
    /\ UNCHANGED builder
    /\ UNCHANGED <<mgrVars, connVars, envVars>>

\* Client::disconnect: nothing for a pooled client, Impl::disconnect
\* otherwise.
PooledDisconnect ==
    /\ cli.state = "built"
    /\ rt.phase \in {"idle", "returned", "thrown"}
    /\ IF UsesPool(cli)
       THEN /\ driver' = << >>
            /\ UNCHANGED cli
       ELSE /\ driver' = IF Disconnects(cli) THEN <<Ev("SQLDisconnect")>>
                         ELSE << >>
            /\ cli' = [cli EXCEPT !.connected = FALSE]
    /\ raised' = NoError
    /\ rt' = NoCall
    /\ query' = NoQuery
    /\ log' = {}
    /\ UNCHANGED builder
    /\ UNCHANGED <<poolVars, mgrVars, connVars, envVars>>

\* The texts the query of a pooled connection may throw.
PooledOutcomes ==
    {[ok |-> TRUE, text |-> << >>],
     [ok |-> FALSE, text |-> <<"HYT00">>],
     [ok |-> FALSE, text |-> <<"08S01">>],
     [ok |-> FALSE, text |-> <<"unknown">>]}

\* RetryConfig values of the pooled client: each way the retry flags can be
\* set, every max_attempts within the bound, and retries disabled.
PooledRetryVals ==
    FlagRetryVals
    \cup {[DefaultRetry EXCEPT !.max_attempts = n] : n \in 1..MaxAttempts}
    \cup {[DefaultRetry EXCEPT !.enabled = FALSE]}

\* A pooled client as Impl::Impl leaves it, for each of these RetryConfig
\* values; its pool holds no connection yet.
InitPooled ==
    /\ \E maxc \in 1..MaxPoolSize : \E minc \in 0..maxc :
          /\ CtorAccepts(minc, maxc)
          /\ pool = NewPool(minc, maxc)
    /\ InitThreads(1)
    /\ MgrIdle
    /\ builder = NewBuilder
    /\ \E r \in PooledRetryVals :
          cli = [state |-> "built", auth |-> ValidAuth, sql |-> ValidSql,
                 pooling |-> [DefaultPooling EXCEPT !.enabled = TRUE],
                 retry |-> r, pooled |-> TRUE, connected |-> FALSE]
    /\ rt = NoCall
    /\ query = NoQuery
    /\ driver = <<Ev("get_pool")>>
    /\ log = {}
    /\ raised = NoError
    /\ ConnIdle
    /\ EnvIdle

NextPooled ==
    \/ PooledQuery(100)
    \/ PooledResume(100)
    \/ \E o \in PooledOutcomes : PooledRun(o, 100)
    \/ PooledWake(100)
    \/ PooledConnect
    \/ PooledDisconnect
    \/ \E t \in Threads \ {Caller} : Acquire(t)
    \/ \E t \in Threads \ {Caller} : Resume(t)
    \/ \E t \in Threads \ {Caller} : \E s \in Slots : Destroy(t, s)
    \/ \E t \in Threads \ {Caller} : Shutdown(t)
    \/ \E t \in Threads : DeadlinePass(t)
    \/ \E t \in Threads : SpuriousWake(t)

PooledSpec == InitPooled /\ [][NextPooled]_vars

\* ====================================================================
\* Properties
\* ====================================================================
Stats == get_stats(pool)
Avail == pool.available_connections_
Success == {"reused", "created"}
Failure == {"timeout", "shutdown"}

\* The step is a return of wait_until in thread t (Resume).
Resumes(t) == pc[t] = "woken" /\ pc'[t] # "woken"
\* In this step thread t calls acquire().
Calls(t) == pc[t] = "idle" /\ (ret'.thread = t \/ pc'[t] = "waiting")
\* In this step thread t runs the loop body of acquire().
LoopPass(t) == Calls(t) \/ (Resumes(t) /\ ~expired[t])

\* C1: while the pool is not shut down, every snapshot get_stats() can take
\* has active_connections <= max_connections and
\* available_connections + active_connections == total_connections.
InvC1 ==
    ~pool.shutdown_ =>
        /\ Stats.active_connections <= pool.max_connections_
        /\ Stats.available_connections + Stats.active_connections
               = Stats.total_connections
\* acquire, release and warm_up have all acted on a live pool.
WitC1 ==
    /\ ~pool.shutdown_
    /\ Stats.active_connections >= 1
    /\ Stats.available_connections >= 1

\* C2: every handle the pool created has at most one owner: a place in the
\* available queue or one live PooledConnection, never two; on a live pool
\* it has exactly one.
HeldBy(h) == {s \in Slots : conn[s].alive /\ conn[s].client_ = h}
QueuedAt(h) == {i \in 1..Len(Avail) : Avail[i] = h}
OwnerCount(h) == Cardinality(HeldBy(h)) + Cardinality(QueuedAt(h))
InvC2 ==
    \A h \in 1..created :
        /\ OwnerCount(h) <= 1
        /\ ~pool.shutdown_ => OwnerCount(h) = 1
\* A handle sits in an object that was the target of a move (its source is
\* alive and empty) while another handle is idle in the queue.
WitC2 ==
    /\ \E s \in Slots : conn[s].alive /\ conn[s].client_ = Null
    /\ \E s \in Slots : conn[s].alive /\ conn[s].client_ # Null
    /\ Avail # << >>

\* C3: in every state, also after shutdown() when outstanding handles are
\* released, 0 <= active_connections <= total_connections <= max_connections.
CexC3 ==
    /\ 0 <= pool.active_connections_
    /\ pool.active_connections_ <= pool.total_connections_
    /\ pool.total_connections_ <= pool.max_connections_

LiveClients == {c \in DOMAIN clients : clients[c].live}
\* In this step client c is built.
Builds(c) == ~clients[c].live /\ clients'[c].live

\* C4 as stated: two clients built with equal (host, token, http_path,
\* timeout_seconds, odbc_driver_name) hold the same pool.
CexC4 ==
    \A c \in LiveClients : \A d \in LiveClients :
        KeyEq(clients[c].key, clients[d].key)
            => clients[c].pool = clients[d].pool
\* C4 amended: with no shutdown_all() in between.  A get_pool call whose key
\* equals that of a registered pool returns that pool and changes no pool
\* and no registry entry, whatever its PoolingConfig; a pool that get_pool
\* constructs has the min and max of the call that constructs it.
ThmC4 ==
    /\ [](\A c \in LiveClients : \A d \in LiveClients :
             ( /\ KeyEq(clients[c].key, clients[d].key)
               /\ clients[c].pool \in Registered
               /\ clients[d].pool \in Registered )
             => clients[c].pool = clients[d].pool)
    /\ [][\A c \in DOMAIN clients :
             Builds(c) =>
               /\ \A i \in Registered :
                     KeyEq(poolObjs[i].key, clients'[c].key) =>
                        /\ clients'[c].pool = i
                        /\ poolObjs' = poolObjs
                        /\ pools_' = pools_
               /\ clients'[c].pool \notin 1..Len(poolObjs) =>
                     LET p == poolObjs'[clients'[c].pool].p
                     IN /\ p.min_connections_ = clients'[c].pooling.min_connections
                        /\ p.max_connections_ = clients'[c].pooling.max_connections]_vars
\* Two clients with equal keys and different pooling settings share one
\* registered pool, which is warmed and keeps the first caller's minimum.
WitC4 ==
    \E c \in LiveClients : \E d \in LiveClients :
        /\ c < d
        /\ KeyEq(clients[c].key, clients[d].key)
        /\ clients[c].pool = clients[d].pool
        /\ clients[c].pool \in Registered
        /\ clients[c].pooling.min_connections # clients[d].pooling.min_connections
        /\ clients[c].pooling.max_connections # clients[d].pooling.max_connections
        /\ clients[c].pooling.connection_timeout_ms
              # clients[d].pooling.connection_timeout_ms
        /\ LET p == poolObjs[clients[c].pool].p
           IN /\ p.total_connections_ > 0
              /\ p.min_connections_ # clients[d].pooling.min_connections

\* C5: with no shutdown_all() in between, two clients whose keys differ in at
\* least one field hold distinct pools.
CexC5 ==
    \A c \in LiveClients : \A d \in LiveClients :
        ( /\ ~KeyEq(clients[c].key, clients[d].key)
          /\ clients[c].pool \in Registered
          /\ clients[d].pool \in Registered )
        => clients[c].pool # clients[d].pool

\* C6: once the pool is shut down it stays shut down, the available queue is
\* empty in every later state, and every acquire() called from then on
\* returns in the same step with the shut-down error, never blocking.
ThmC6 ==
    /\ [](pool.shutdown_ => Stats.available_connections = 0)
    /\ [][pool.shutdown_ =>
            /\ pool'.shutdown_
            /\ \A t \in Threads :
                  pc[t] = "idle" =>
                     /\ pc'[t] = "idle"
                     /\ ret'.thread = t => ret'.outcome = "shutdown"]_vars
\* An acquire() failed with the shut-down error after a handle that was
\* outstanding at shutdown had been released.
WitC6 ==
    /\ pool.shutdown_
    /\ ret.outcome = "shutdown"
    /\ pool.total_connections_ < pool.active_connections_

CexC8 ==
    /\ \A t \in Threads :
          (pc[t] # "idle")
              ~> (ret.thread = t /\ ret.outcome \in Success \cup Failure)
    /\ [](ret.thread # 0 => ret.outcome \in Success \cup Failure)
\* C8 amended: every acquire() eventually ends; a call that blocked ends by
\* returning a connection, with the timeout error or with the shut-down
\* error, and a call may also end with the error of a failed connection
\* creation.
ThmC8 ==
    /\ \A t \in Threads :
          (pc[t] # "idle")
              ~> (ret.thread = t /\ ret.outcome \in Success \cup Failure)
    /\ [](ret.thread # 0 =>
             ret.outcome \in Success \cup Failure \cup {"create_failed"})
\* A blocked acquire() timed out while another thread is still blocked.
WitC8 ==
    /\ ret.outcome = "timeout"
    /\ \E t \in Threads : pc[t] # "idle"

\* C9 as stated: an acquire() that was blocked on an exhausted pool when a
\* holder released a connection before its deadline returns a connection.
CexC9 ==
    (ret.thread # 0 /\ ret.offered) => ret.outcome = "reused"
\* C9 amended: a release on a live pool with blocked threads wakes one of
\* them; a waiter whose wait returns before its deadline, on a live pool
\* with an idle handle, returns the handle at the head of the queue.
ThmC9 ==
    [][/\ ( /\ ~pool.shutdown_
            /\ pool'.active_connections_ = pool.active_connections_ - 1
            /\ Waiters # {} )
          => \E w \in Waiters : pc'[w] = "woken"
       /\ \A t \in Threads :
             ( /\ Resumes(t)
               /\ ~expired[t]
               /\ ~pool.shutdown_
               /\ Avail # << >> )
             => ret' = Outcome(t, "reused", Head(Avail))]_vars
\* A waiter that was blocked when a handle was released received a handle.
WitC9 ==
    /\ ret.thread # 0
    /\ ret.offered
    /\ ret.outcome = "reused"

\* acquire() reuses the head of the queue whenever a handle is idle, and
\* creates a handle only when none is idle and total < max.
PolicyC10 ==
    \A t \in Threads :
       /\ (ret'.thread = t /\ ret'.outcome = "reused")
             => Avail # << >> /\ ret'.handle = Head(Avail)
       /\ (ret'.thread = t /\ ret'.outcome \in {"created", "create_failed"})
             => /\ Avail = << >>
                /\ pool.total_connections_ < pool.max_connections_
       /\ (ret'.thread = t /\ ret'.outcome = "created")
             => ret'.handle \notin 1..created
       /\ (LoopPass(t) /\ ~pool.shutdown_ /\ Avail # << >>)
             => ret'.thread = t /\ ret'.outcome = "reused"
\* The acquires made since the pool was warmed with nothing outstanding.
RunLength == run.reused + run.made
\* From the warmed pool, with no release: each of the first max acquires
\* ends with an outcome in allowed; after max of them succeeded min were
\* reuses, the stats are {max, 0, max}, and any acquire that ends, ends with
\* the timeout error.
ScenarioC10(allowed) ==
    /\ (run.on /\ RunLength < pool.max_connections_)
          => \A t \in Threads :
                Calls(t) => ret'.thread = t /\ ret'.outcome \in allowed
    /\ (run'.on /\ RunLength' = pool.max_connections_)
          => /\ run'.reused = pool.min_connections_
             /\ run'.made = pool.max_connections_ - pool.min_connections_
             /\ get_stats(pool') = [total_connections |-> pool.max_connections_,
                                    available_connections |-> 0,
                                    active_connections |-> pool.max_connections_]
    /\ (run.on /\ RunLength = pool.max_connections_ /\ ret'.thread # 0)
          => ret'.outcome = "timeout"
ContainsToken(text) ==
    \E i \in 1..Len(text) :
        i + Len(Token) - 1 <= Len(text)
        /\ SubSeq(text, i, i + Len(Token) - 1) = Token
UnredactedPwd(text) ==
    \E i \in 1..Len(text) :
        /\ text[i] = "PWD="
        /\ i < Len(text)
        /\ text[i + 1] \notin {"[REDACTED]", ";"}
Leaks(text) == ContainsToken(text) \/ UnredactedPwd(text)

\* The classes of the retry policy, as the classification rules state them.
RetryableClass(r, e) ==
    \/ r.retry_on_timeout /\ Has(e, TimeoutMarks)
    \/ r.retry_on_connection_lost /\ Has(e, ConnectionLostMarks)
    \/ Has(e, TransientMarks)

\* C11: with retries enabled and max_attempts = N >= 1, a call whose
\* operation fails every time with a retryable error invokes it exactly N
\* times: while it sleeps fewer than N invocations were made, and it ends
\* after N invocations and N-1 sleeps, none after the last failure, with an
\* error that reports N attempts.
ThmC11 ==
    (cli.state = "built" /\ cli.retry.enabled /\ cli.retry.max_attempts >= 1)
    => /\ rt.phase = "sleeping"
             => /\ rt.calls < cli.retry.max_attempts
                /\ Len(rt.sleeps) = rt.calls
       /\ (rt.phase = "thrown" /\ RetryableClass(cli.retry, rt.last))
             => /\ rt.calls = cli.retry.max_attempts
                /\ Len(rt.sleeps) = cli.retry.max_attempts - 1
                /\ raised.kind = "exhausted"
                /\ raised.attempts = cli.retry.max_attempts
\* A call gave up after several retryable failures.
WitC11 ==
    /\ cli.retry.enabled
    /\ rt.phase = "thrown"
    /\ RetryableClass(cli.retry, rt.last)
    /\ rt.calls >= 2
    /\ rt.calls = cli.retry.max_attempts
    /\ raised.attempts = rt.calls

\* C12: with retries enabled, for every max_attempts, an invocation that
\* fails with an error classified non-retryable ends the call: no sleep and
\* no invocation follows it and an error carrying the failure is raised; when
\* it is the first invocation the operation was invoked exactly once.
ThmC12 ==
    ( /\ cli.state = "built"
      /\ cli.retry.enabled
      /\ rt.phase \in {"sleeping", "thrown"}
      /\ ~RetryableClass(cli.retry, rt.last) )
    => /\ rt.phase = "thrown"
       /\ rt.calls = Len(rt.sleeps) + 1
       /\ Len(rt.sleeps) = 0 => rt.calls = 1
       /\ raised.kind \in {"rethrown", "exhausted"}
       /\ raised.kind = "rethrown" => raised.text = rt.last
\* The first invocation failed with a non-retryable error although further
\* attempts were allowed, and the failure was rethrown.
WitC12 ==
    /\ cli.retry.enabled
    /\ cli.retry.max_attempts >= 2
    /\ rt.phase = "thrown"
    /\ ~RetryableClass(cli.retry, rt.last)
    /\ rt.calls = 1
    /\ rt.sleeps = << >>
    /\ raised.kind = "rethrown"

\* C13: under every RetryConfig a built client runs with, the un-jittered
\* delays are initial_backoff_ms, then the previous one times the
\* multiplier, each capped at max_backoff_ms, so none exceeds max_backoff_ms;
\* the slept delay is the capped value times a jitter in [0.75, 1.25].
CexC13 ==
    cli.state = "built" =>
      \A k \in 1..Len(rt.sleeps) :
        /\ rt.sleeps[k].base <= cli.retry.max_backoff_ms
        /\ rt.sleeps[k].base =
              Min(IF k = 1 THEN cli.retry.initial_backoff_ms
                  ELSE (rt.sleeps[k - 1].base * cli.retry.backoff_multiplier.num)
                          \div cli.retry.backoff_multiplier.den,
                  cli.retry.max_backoff_ms)
        /\ rt.sleeps[k].slept * 100 >= rt.sleeps[k].base * JitterLoPct - 99
        /\ rt.sleeps[k].slept * 100 <= rt.sleeps[k].base * JitterHiPct

\* C14: no error raised by build's connect, connect() or query(), and no
\* message they log, contains the token or an unredacted PWD= fragment.
CexC14 ==
    /\ ~Leaks(raised.text)
    /\ \A m \in log : ~Leaks(m)

\* The texts of the statements handed to the driver by a sequence of calls.
IsStatement(ev) == ev.fn \in {"SQLPrepare", "SQLExecDirect"}
StatementTexts(calls) ==
    LET st == SelectSeq(calls, IsStatement)
    IN [i \in 1..Len(st) |-> st[i].text]

\* C15: for a query() with a non-empty parameter list no statement is
\* executed directly, the text prepared is exactly the sql argument, each
\* value reaches the driver through SQLBindParameter at its position, and
\* any other parameter list of the same length gives the same statements.
ThmC15 ==
    query.params # << >> =>
      /\ \A i \in 1..Len(driver) :
            /\ driver[i].fn # "SQLExecDirect"
            /\ driver[i].fn = "SQLPrepare" => driver[i].text = query.sql
            /\ driver[i].fn = "SQLBindParameter"
                  => driver[i].text = query.params[driver[i].index]
      /\ \A other \in ParamLists :
            Len(other) = Len(query.params)
               => StatementTexts(DriverCalls(query.sql, other))
                     = StatementTexts(DriverCalls(query.sql, query.params))
\* A query with two parameters, one of them an injection attempt, was
\* prepared, bound and executed.
WitC15 ==
    /\ Len(query.params) = 2
    /\ \E i \in 1..2 : query.params[i] = <<"'; DROP TABLE users; --">>
    /\ \E i \in 1..Len(driver) : driver[i].fn = "SQLExecute"
    /\ raised = NoError

\* The builder holds no AuthConfig or no SQLConfig, or holds one with an
\* empty host, token, http_path or driver name, or timeout_seconds <= 0.
BadBuilderC16 ==
    \/ ~builder.auth_.set
    \/ ~builder.sql_.set
    \/ builder.auth_.v.host = << >>
    \/ builder.auth_.v.token = << >>
    \/ builder.auth_.v.timeout_seconds <= 0
    \/ builder.sql_.v.http_path = << >>
    \/ builder.sql_.v.odbc_driver_name = << >>
\* C16: build() on such a builder fails with a configuration error before
\* any connection attempt or pool lookup; no client is built from it, so
\* nothing is left to fail in connect() or query().
ThmC16 ==
    [][(cli.state = "none" /\ cli'.state # "none" /\ BadBuilderC16)
          => /\ cli'.state = "failed"
             /\ raised'.kind = "config"
             /\ driver' = << >>
             /\ rt' = NoCall]_vars
\* A build failed on an invalid SQLConfig although an AuthConfig was given.
WitC16 ==
    /\ cli.state = "failed"
    /\ raised = Error("config", <<"Invalid SQLConfig">>)
    /\ driver = << >>

\* C17: no pooled client is built with min_connections > max_connections,
\* whatever the registry holds.
CexC17 ==
    \A c \in LiveClients :
        clients[c].pooling.min_connections <= clients[c].pooling.max_connections

\* C18: no client is built with a RetryConfig for which is_valid() is false,
\* so no operation runs under one.
CexC18 ==
    /\ cli.state = "built" => RetryConfig_is_valid(cli.retry)
    /\ rt.calls > 0 => RetryConfig_is_valid(cli.retry)

\* ----------------------------------------------------- pool properties (2)
Max(a, b) == IF a >= b THEN a ELSE b
\* The step is a warm_up() on a live pool in which every creation succeeds.
WarmsFully ==
    /\ ~pool.shutdown_
    /\ Missing(pool) > 0
    /\ created' - created = Missing(pool)
    /\ pool'.active_connections_ = pool.active_connections_
\* C19: a warm_up() on a live pool whose creations succeed ends with
\* total == max(total before, min), the new handles appended to the queue and
\* active unchanged; on the fresh fixture pool it ends at {2, 2, 0}; a
\* warm_up() on a pool that already has min handles changes nothing.
ThmC19 ==
    /\ [][WarmsFully =>
            /\ pool'.total_connections_
                  = Max(pool.total_connections_, pool.min_connections_)
            /\ pool'.available_connections_
                  = Avail \o NewHandles(created, created' - created)
            /\ Missing(pool') = 0
            /\ pool'.active_connections_ = pool.active_connections_
            /\ pool.total_connections_ = 0
                  => get_stats(pool') = [total_connections |-> ScenarioMin,
                                         available_connections |-> ScenarioMin,
                                         active_connections |-> 0]]_vars
    /\ [](~pool.shutdown_ =>
            LET once == warm_up(pool, created, Missing(pool))
            IN /\ once.total_connections_
                     = Max(pool.total_connections_, pool.min_connections_)
               /\ warm_up(once, created + Missing(pool), Missing(once)) = once)
\* The fresh fixture pool was warmed: {total 2, available 2, active 0}.
WitC19 ==
    /\ ~pool.shutdown_
    /\ created = ScenarioMin
    /\ get_stats(pool) = [total_connections |-> ScenarioMin,
                          available_connections |-> ScenarioMin,
                          active_connections |-> 0]

\* The handle left the PooledConnection objects in this step.
Released(h) == HeldBy(h) # {} /\ HeldBy(h)' = {}
\* C20: a handle held by a PooledConnection stays with exactly one object
\* (the same, or the target of a move) until that object is destroyed or
\* assigned to, and then the pool receives it through one return_connection;
\* destroying a moved-from object leaves the pool as it is; the pool gets a
\* handle back only from an object that gives it up.
ThmC20 ==
    [][/\ \A h \in 1..created :
             HeldBy(h) # {} =>
                \/ /\ Cardinality(HeldBy(h)') = 1
                   /\ \A i \in 1..Len(pool'.available_connections_) :
                         pool'.available_connections_[i] # h
                \/ /\ HeldBy(h)' = {}
                   /\ pool' = return_connection(pool, h)
       /\ \A s \in Slots :
             (conn[s].alive /\ ~conn'[s].alive /\ conn[s].client_ = Null)
                => pool' = pool
       /\ ( \/ pool'.active_connections_ < pool.active_connections_
            \/ pool.shutdown_
                  /\ pool'.total_connections_ < pool.total_connections_ )
             => Cardinality({h \in 1..created : Released(h)}) = 1]_vars
\* On a pool that never warms (min 0) a handle is back in the queue while a
\* moved-from object is still alive next to an object that holds a handle.
WitC20 ==
    /\ pool.min_connections_ = 0
    /\ Len(Avail) >= 1
    /\ \E s \in Slots : conn[s].alive /\ conn[s].client_ = Null
    /\ \E s \in Slots : conn[s].alive /\ conn[s].client_ # Null

\* ---------------------------------------------------------------- C21
\* The parts of the claim every step keeps: at most one connection is
\* established between disconnects and none is being made while one
\* exists; only the holder of the mutex is in SQLDriverConnect; a
\* connect() that obtains the mutex on a connected client changes nothing;
\* query() reaches its statement only on a connected client and after the
\* async connect that was pending when it was called is over.
OnceC21 ==
    /\ links' <= 1
    /\ \A a \in Activities :
          act'[a].at = "connecting" => connection_mutex' = a /\ links' = 0
    /\ \A a \in Activities :
          (act[a].at = "lock" /\ act'[a].at # "lock" /\ cli.connected)
             => /\ act'[a].res = "noop"
                /\ act'[a].at # "connecting"
                /\ cli' = cli /\ links' = links /\ connection_mutex' = 0
    /\ \A t \in Threads :
          (act[t].at # "exec" /\ act'[t].at = "exec")
             => /\ cli'.connected
                /\ act'[t].saw # 0 => act'[act'[t].saw].at = "done"

\* C21 as stated: for a direct client, under every interleaving of
\* connect(), connect_async() and query(), the connection is established at
\* most once between disconnects; a connect that starts while another is in
\* flight waits for it and then does nothing (it never calls the driver);
\* query() waits for a pending async connect before executing; connect() on
\* a connected client has no effect.
CexC21 ==
    [][/\ OnceC21
       /\ \A a \in Activities :
             act[a].waited => act'[a].at # "connecting"]_vars

\* C21, amended: as stated, except that a connect that waited for another
\* does nothing only when it finds the client connected; when the connect it
\* waited for has failed it makes its own call to the driver, with no
\* connection in existence.
ThmC21 ==
    [][/\ OnceC21
       /\ \A a \in Activities :
             (act[a].waited /\ act[a].at = "lock" /\ act'[a].at # "lock")
                => IF cli.connected
                   THEN act'[a].res = "noop" /\ links' = links
                   ELSE act'[a].at = "connecting" /\ links = 0]_vars

\* Witness for C21: a connect that found the mutex held has returned without
\* touching the driver, a query has waited for the pending async connect and
\* is at its statement, and one connection exists.
WitC21 ==
    /\ links = 1
    /\ \E a \in Threads : act[a].op = "connect" /\ act[a].waited
                          /\ act[a].res = "noop"
    /\ \E t \in Threads : act[t].op = "query" /\ act[t].at = "exec"
                          /\ act[t].saw # 0

\* ---------------------------------------------------------------- C22
\* C22: an AuthConfig returned by from_profile, from_env or
\* from_environment holds the loaded token as its secure token:
\* has_secure_token() is true and the secure token is the token loaded.
CexC22 ==
    loaded.ok =>
       /\ has_secure_token(loaded.config)
       /\ loaded.config.secure_token_ = loaded.config.token

\* ---------------------------------------------------------------- C23
\* C23: releasing a handle decrements active_connections by exactly one in
\* both cases: on a shut-down pool the handle is discarded
\* (total_connections decremented, handle not requeued); otherwise the
\* handle is pushed onto the available queue, total_connections is
\* unchanged and exactly one waiter is notified.
CexC23 ==
    [][\A h \in 1..created :
          Released(h) =>
             /\ pool'.active_connections_ = pool.active_connections_ - 1
             /\ IF pool.shutdown_
                THEN /\ pool'.total_connections_ = pool.total_connections_ - 1
                     /\ QueuedAt(h)' = {}
                ELSE /\ Avail' = Append(Avail, h)
                     /\ pool'.total_connections_ = pool.total_connections_
                     /\ Waiters # {} =>
                           Cardinality({w \in Waiters : pc'[w] = "woken"}) = 1]_vars

\* ---------------------------------------------------------------- C24
\* C24: an acquire() that fails because its deadline elapsed yields an
\* error that differs from the error of acquire() on a shut-down pool and
\* from every connection-creation failure: among the failures of acquire()
\* the timeout error is raised by the elapsed deadline and by nothing else.
ThmC24 ==
    ret.outcome \in {"timeout", "shutdown", "create_failed"} =>
       /\ ret.error.type # "none"
       /\ (ret.error = acquire_error("timeout", << >>))
             <=> (ret.outcome = "timeout")
\* Witness for C24: an acquire() has just failed on its deadline.
WitC24 ==
    /\ ret.outcome = "timeout"
    /\ ret.error.what = <<"Timeout", " waiting for connection from pool">>
    /\ ~pool.shutdown_

\* ---------------------------------------------------------------- C25
\* C25: a pool newly created by get_pool takes min_connections,
\* max_connections and the acquire timeout from the PoolingConfig of the
\* caller that created it: connection_timeout_ms_, from which acquire()
\* computes its deadline, is the caller's connection_timeout_ms.
CexC25 ==
    [][\A c \in DOMAIN clients :
          (Builds(c) /\ Len(poolObjs') = Len(poolObjs) + 1) =>
             LET made == poolObjs'[Len(poolObjs')].p
                 cfg == clients'[c].pooling
             IN /\ made.min_connections_ = cfg.min_connections
                /\ made.max_connections_ = cfg.max_connections
                /\ made.connection_timeout_ms_ = cfg.connection_timeout_ms]_vars

\* ---------------------------------------------------------------- C26
\* The call caught an error in its last pass through the loop.
Caught == cli.retry.enabled /\ rt.phase \in {"sleeping", "thrown"}
\* C26: an error whose text carries an authentication, permission, syntax
\* or constraint indicator is classified non-retryable for every
\* RetryConfig, also when the text carries a timeout, connection-loss or
\* server-transient indicator: no call sleeps and retries after it.
CexC26 ==
    (Caught /\ Has(rt.last, NonRetryableMarks \ {"HY013"})) =>
       /\ ~is_error_retryable(cli.retry, rt.last)
       /\ rt.phase # "sleeping"

\* ---------------------------------------------------------------- C27
OnlyMarks(e, marks) ==
    /\ Has(e, marks)
    /\ ~Has(e, (TimeoutMarks \cup ConnectionLostMarks \cup TransientMarks
                \cup NonRetryableMarks) \ marks)
\* C27: is_error_retryable classifies an error that carries only timeout
\* indicators as retryable iff retry_on_timeout, one that carries only
\* connection-loss indicators as retryable iff retry_on_connection_lost, one
\* that carries a server-transient indicator as retryable whatever the
\* flags, and one that matches no known indicator as non-retryable; with an
\* attempt left the call sleeps and retries exactly when the error is
\* classified retryable.
ThmC27 ==
    Caught =>
       LET e == rt.last
           retryable == is_error_retryable(cli.retry, e)
       IN /\ OnlyMarks(e, TimeoutMarks)
               => (retryable <=> cli.retry.retry_on_timeout)
          /\ OnlyMarks(e, ConnectionLostMarks)
               => (retryable <=> cli.retry.retry_on_connection_lost)
          /\ Has(e, TransientMarks) => retryable
          /\ ~Has(e, TimeoutMarks \cup ConnectionLostMarks \cup TransientMarks
                     \cup NonRetryableMarks) => ~retryable
          /\ rt.attempt < cli.retry.max_attempts
               => (rt.phase = "sleeping" <=> retryable)
\* Witness for C27: with retry_on_timeout off and retry_on_connection_lost
\* on, a call retried after a connection-loss error and then failed on a
\* timeout error without retrying.
WitC27 ==
    /\ ~cli.retry.retry_on_timeout
    /\ cli.retry.retry_on_connection_lost
    /\ rt.phase = "thrown"
    /\ rt.calls = 2
    /\ Len(rt.sleeps) = 1
    /\ OnlyMarks(rt.last, TimeoutMarks)

\* ---------------------------------------------------------------- C28
\* C28: with retries enabled, every failure raised by execute_with_retry,
\* whether the last error was non-retryable or the attempts were exhausted,
\* is the final wrapped error carrying the number of attempts made, counted
\* from 1, and the sanitized last underlying message.
CexC28 ==
    (cli.state = "built" /\ cli.retry.enabled /\ rt.phase = "thrown") =>
       /\ raised.kind = "exhausted"
       /\ raised.attempts = rt.calls
       /\ raised.attempts >= 1
       /\ raised.text = sanitize_error_message(cli.auth, rt.last)

\* ---------------------------------------------------------------- C30
\* C30: with retry.enabled false, execute_with_retry invokes the operation
\* exactly once, never sleeps, and returns its result or propagates its
\* error unchanged.
ThmC30 ==
    (cli.state = "built" /\ ~cli.retry.enabled /\ rt.phase # "idle") =>
       /\ rt.calls = 1
       /\ rt.attempt = 0
       /\ rt.sleeps = << >>
       /\ rt.phase \in {"returned", "thrown"}
       /\ rt.phase = "returned" => raised = NoError
       /\ rt.phase = "thrown" =>
             raised.kind = "direct" /\ raised.text = rt.last
\* Witness for C30: a client with retries disabled has made one call whose
\* operation failed with a retryable error, which reached the caller as is.
WitC30 ==
    /\ cli.state = "built"
    /\ ~cli.retry.enabled
    /\ rt.phase = "thrown"
    /\ rt.calls = 1
    /\ is_error_retryable(cli.retry, rt.last)
    /\ raised.text = rt.last

\* ---------------------------------------------------------------- C29
\* The text of the last error is that of a failed SQLBindParameter.
BindFailed == rt.last # << >> /\ Head(rt.last) = "Failed to bind parameter"
\* C29: a parameter-binding failure in query() reaches the caller after
\* exactly one execution attempt and is never retried, whatever diagnostic
\* the driver attaches to it and whatever the RetryConfig.
CexC29 ==
    BindFailed =>
       /\ rt.phase = "thrown"
       /\ rt.calls = 1
       /\ rt.sleeps = << >>
       /\ Cardinality({i \in DOMAIN driver : driver[i].fn = "SQLPrepare"}) = 1

\* ---------------------------------------------------------------- C32
\* C32: for a client without pool, disconnect() on a connected client closes
\* the connection (SQLDisconnect) and leaves the client built and not
\* connected, with no other member changed; a connect() or query() that finds
\* the client not connected goes to the driver, and connects the client when
\* the driver succeeds; disconnect() on a client that is not connected calls
\* nothing and changes nothing.
ThmC32 ==
    [][/\ (cli.connected /\ ~cli'.connected)
             => /\ driver' = <<Ev("SQLDisconnect")>>
                /\ cli' = [cli EXCEPT !.connected = FALSE]
                /\ cli'.state = "built"
                /\ links' = 0
       /\ (~cli.connected /\ driver' # driver)
             => /\ driver' = << >>
                /\ cli' = cli
                /\ links' = links
                /\ act' = act
       /\ \A a \in Activities :
             (act[a].at = "lock" /\ act'[a].at # "lock" /\ ~cli.connected)
                => act'[a].at = "connecting"
       /\ \A a \in Activities :
             (act[a].at = "connecting" /\ act'[a].res = "connected")
                => cli'.connected /\ links' = 1]_vars
\* Witness for C32: a connection was closed by disconnect() and a later
\* query() has connected the client again.
WitC32 ==
    /\ driver = <<Ev("SQLDisconnect")>>
    /\ cli.connected
    /\ links = 1
    /\ \E t \in Threads : act[t].op = "query" /\ act[t].res = "connected"

\* ---------------------------------------------------------------- C33
\* C33: a client built as create_connection() builds it, by a builder that
\* was given no PoolingConfig, is a client without pool: its construction
\* never calls PoolManager::get_pool, whatever else the builder was given
\* and however the construction ends; get_pool is called only for a builder
\* whose PoolingConfig is enabled.
ThmC33 ==
    [][(cli.state = "none" /\ cli'.state # "none")
          => /\ ~builder.pooling_.set
                   => /\ ~cli'.pooled
                      /\ \A i \in DOMAIN driver' : driver'[i].fn # "get_pool"
             /\ (\E i \in DOMAIN driver' : driver'[i].fn = "get_pool")
                   => builder.pooling_.set /\ builder.pooling_.v.enabled]_vars
\* Witness for C33: the client create_connection() asks for exists: built
\* with auto-connect and without PoolingConfig, connected through the driver.
WitC33 ==
    /\ cli.state = "built"
    /\ cli.pooling = DefaultPooling
    /\ ~cli.pooled
    /\ cli.connected
    /\ driver = <<Ev("SQLAllocHandle"), Ev("SQLDrivers"), Ev("SQLDriverConnect")>>

\* ---------------------------------------------------------------- C34
\* C34: shutdown_all() shuts down every registered pool, leaves the other
\* pools as they are and empties the registry; no shut-down pool is ever
\* registered; a get_pool call whose key hash is not registered (as is every
\* hash after shutdown_all()) constructs a pool that is not shut down and is
\* none of the pools that existed, and registers it; a client references
\* the same pool from its construction to its destruction, also when that
\* pool has been shut down.
ThmC34 ==
    /\ [](\A i \in Registered : ~poolObjs[i].p.shutdown_)
    /\ [][/\ (pools_ # << >> /\ pools_' = << >>)
                => /\ \A i \in Registered : poolObjs'[i].p.shutdown_
                   /\ \A i \in DOMAIN poolObjs :
                         i \notin Registered => poolObjs'[i] = poolObjs[i]
                   /\ DOMAIN poolObjs' = DOMAIN poolObjs
                   /\ clients' = clients
          /\ \A c \in DOMAIN clients :
                (Builds(c) /\ hash(clients'[c].key) \notin DOMAIN pools_)
                   => /\ clients'[c].pool \notin DOMAIN poolObjs
                      /\ clients'[c].pool \in DOMAIN poolObjs'
                      /\ ~poolObjs'[clients'[c].pool].p.shutdown_
                      /\ pools_'[hash(clients'[c].key)] = clients'[c].pool
          /\ \A c \in DOMAIN clients :
                (clients[c].live /\ clients'[c].live)
                   => clients'[c].pool = clients[c].pool]_vars
\* Witness for C34: a client built before shutdown_all() references the old
\* pool, which is shut down, and a client built afterwards with the same
\* key references another pool, registered and not shut down.
WitC34 ==
    \E c \in LiveClients : \E d \in LiveClients :
        /\ KeyEq(clients[c].key, clients[d].key)
        /\ poolObjs[clients[c].pool].p.shutdown_
        /\ clients[d].pool # clients[c].pool
        /\ clients[d].pool \in Registered
        /\ ~poolObjs[clients[d].pool].p.shutdown_

\* ---------------------------------------------------------------- C35
NoConnections ==
    [total_connections |-> 0, available_connections |-> 0,
     active_connections |-> 0]
\* C35: a pool that was just constructed, directly or by get_pool, has the
\* stats {total: 0, available: 0, active: 0}; they stay so while no
\* connection was created, and the step that changes them is a warm_up()
\* that created connections or an acquire() that created one.
ThmC35 ==
    /\ Stats = NoConnections
    /\ [](created = 0 => Stats = NoConnections)
    /\ [][(Stats = NoConnections /\ Stats' # NoConnections)
             => \/ \E t \in Threads :
                      /\ LoopPass(t)
                      /\ ret'.outcome = "created"
                      /\ pool' = [create_connection(pool) EXCEPT
                                    !.active_connections_ = 1]
                \/ \E k \in 1..Missing(pool) :
                      pool' = warm_up(pool, created, k)]_vars
    /\ [][\A i \in DOMAIN poolObjs' :
             IF i \notin DOMAIN poolObjs
             THEN get_stats(poolObjs'[i].p) = NoConnections
             ELSE (/\ get_stats(poolObjs[i].p) = NoConnections
                   /\ get_stats(poolObjs'[i].p) # NoConnections)
                     => \E k \in 1..Missing(poolObjs[i].p) :
                           poolObjs'[i].p = warm_up(poolObjs[i].p, 0, k)]_vars
\* Witness for C35: the pool was constructed with min_connections >= 1 and
\* its connections were made by the first warm_up().
WitC35 ==
    /\ pool.min_connections_ >= 1
    /\ created = pool.min_connections_
    /\ Stats = [total_connections |-> pool.min_connections_,
                available_connections |-> pool.min_connections_,
                active_connections |-> 0]

\* ---------------------------------------------------------------- C36
\* C36: every pool that exists has min_connections <= max_connections; a
\* build() that ends with the std::invalid_argument of the ConnectionPool
\* constructor adds no registry entry, no pool and no client; a pool is
\* constructed and registered only for a pair the constructor accepts, and
\* then build() raises nothing.
ThmC36 ==
    /\ [](/\ pool.min_connections_ <= pool.max_connections_
          /\ \A i \in DOMAIN poolObjs :
                poolObjs[i].p.min_connections_ <= poolObjs[i].p.max_connections_)
    /\ [][/\ (raised.kind # "invalid_argument"
                /\ raised'.kind = "invalid_argument")
                => /\ pools_' = pools_
                   /\ poolObjs' = poolObjs
                   /\ clients' = clients
          /\ \A c \in DOMAIN clients :
                (Builds(c) /\ clients'[c].pool \notin DOMAIN poolObjs)
                   => /\ CtorAccepts(clients'[c].pooling.min_connections,
                                     clients'[c].pooling.max_connections)
                      /\ poolObjs'[clients'[c].pool].p =
                            NewPool(clients'[c].pooling.min_connections,
                                    clients'[c].pooling.max_connections)
                      /\ raised' = NoError]_vars
\* Witness for C36: the last build() failed with std::invalid_argument; the
\* registry holds the pool it held before, and a client uses that pool.
WitC36 ==
    /\ raised.kind = "invalid_argument"
    /\ pools_ # << >>
    /\ \E c \in LiveClients : clients[c].pool \in Registered

\* ---------------------------------------------------------------- C39
\* C39: while the pool is not shut down, no thread stays blocked in
\* acquire() before its deadline while a handle is idle in the queue (with
\* no woken waiter on its way to take it), and no acquire() fails with the
\* timeout error while a handle is idle in the queue.
CexC39 ==
    /\ (~pool.shutdown_ /\ \A u \in Threads : pc[u] # "woken")
          => \A t \in Threads :
                (pc[t] = "waiting" /\ ~expired[t]) => Avail = << >>
    /\ ret.outcome = "timeout" => Avail = << >>

\* ---------------------------------------------------------------- C40
\* C40: an acquire() that ends with the error of create_connection() hands
\* that error to its caller and leaves the pool, the PooledConnection
\* objects and the number of connections created as they were; a warm_up()
\* adds exactly the connections it created to total_connections and to the
\* queue and changes nothing else, also when it stops at a creation that
\* failed; afterwards the counters are consistent and the capacity the
\* failed creation would have used is still free.
ThmC40 ==
    /\ [](ret.outcome = "create_failed"
             => /\ pool.total_connections_ < pool.max_connections_
                /\ Stats.available_connections + Stats.active_connections
                       = Stats.total_connections
                /\ Stats.active_connections <= pool.max_connections_)
    /\ [][/\ \A t \in Threads :
                (LoopPass(t) /\ ret'.outcome = "create_failed")
                   => /\ pool' = pool
                      /\ conn' = conn
                      /\ created' = created
                      /\ ret'.error.type = "std::runtime_error"
                      /\ ret'.error.what \in CreateErrorTexts
          /\ (pool'.total_connections_ > pool.total_connections_
                /\ pool'.active_connections_ = pool.active_connections_)
                => /\ created' - created
                         = pool'.total_connections_ - pool.total_connections_
                   /\ pool' = warm_up(pool, created, created' - created)
                   /\ pool'.total_connections_ <= pool.min_connections_
                   /\ conn' = conn]_vars
\* Witness for C40: an acquire() has just failed in create_connection()
\* while a connection is in use and the pool is below min_connections.
WitC40 ==
    /\ ret.outcome = "create_failed"
    /\ Stats.active_connections >= 1
    /\ pool.total_connections_ < pool.min_connections_

\* ---------------------------------------------------------------- C31
\* C31: a client that holds a pool never holds a connection of its own: it
\* is never connected and none of its calls reaches SQLAllocHandle,
\* SQLDriverConnect or SQLDisconnect; its disconnect() calls nothing and
\* changes neither the pool (counters, queue, shutdown flag), nor the
\* PooledConnection objects, nor the waiting threads, nor the client; its
\* connect() is a step of pool.warm_up() and changes nothing in the client.
ThmC31 ==
    /\ [](cli.pooled
             => /\ ~cli.connected
                /\ \A i \in DOMAIN driver :
                      driver[i].fn \notin {"SQLAllocHandle", "SQLDrivers",
                                           "SQLDriverConnect", "SQLDisconnect"})
    /\ [][/\ (driver' = << >> /\ driver # << >>)
                => /\ pool' = pool
                   /\ created' = created
                   /\ conn' = conn
                   /\ pc' = pc
                   /\ cli' = cli
                   /\ raised' = NoError
          /\ (driver' = <<Ev("warm_up")>> /\ driver # <<Ev("warm_up")>>)
                => /\ WarmUpPool(Caller)
                   /\ cli' = cli]_vars
\* Witness for C31: connect() on the pooled client has filled the pool up to
\* min_connections, and its disconnect() has left them there.
WitC31 ==
    /\ cli.pooled
    /\ driver = << >>
    /\ ~pool.shutdown_
    /\ pool.min_connections_ >= 1
    /\ Stats.available_connections = pool.min_connections_

\* PooledConnection objects of thread t that still own a handle.
Outstanding(t) ==
    {s \in Slots : Owner(s) = t /\ conn[s].alive /\ conn[s].client_ # Null}

\* The calls the pooled query() has made so far have the shape
\* acquire, then query and return_connection only after an acquire that
\* handed out a handle.
AttemptShape ==
    \A i \in DOMAIN driver :
       /\ driver[i].fn = "query" =>
             /\ i > 1 /\ driver[i - 1].fn = "acquire"
             /\ i < Len(driver) /\ driver[i + 1].fn = "return_connection"
       /\ driver[i].fn = "return_connection" =>
             i > 1 /\ driver[i - 1].fn = "query"

\* C37: for a pooled client every attempt of query() acquires one handle and
\* has released it when the attempt is over, whether the query returned or
\* threw: the caller owns one PooledConnection while the attempt holds it and
\* none once the attempt is over, the acquire step adds one to
\* active_connections and the end of the attempt takes it back, a failed
\* acquire leaves active_connections alone; so when query() has returned or
\* thrown on a live pool active_connections counts only the connections of
\* the other threads (its value before the call when they do nothing), on a
\* shut-down pool the caller's acquire changes nothing, and while the pool is
\* not shut down active_connections is the number of outstanding
\* PooledConnections.
ThmC37 ==
    /\ [](~pool.shutdown_ =>
            pool.active_connections_ =
               Cardinality(UNION {Outstanding(t) : t \in Threads}))
    /\ [](rt.phase = "holding" => Cardinality(Outstanding(Caller)) = 1)
    /\ [](rt.phase \in {"returned", "thrown", "sleeping"} =>
            /\ Outstanding(Caller) = {}
            /\ AttemptShape
            /\ ~pool.shutdown_ =>
                  pool.active_connections_ =
                     Cardinality(UNION {Outstanding(t) :
                                           t \in Threads \ {Caller}}))
    /\ [][rt.phase # "holding" /\ rt'.phase = "holding" =>
            /\ pool'.active_connections_ = pool.active_connections_ + 1
            /\ driver'[Len(driver')].fn = "acquire"]_vars
    /\ [][rt.phase = "holding" /\ rt'.phase # "holding" =>
            /\ rt'.phase \in {"returned", "thrown", "sleeping"}
            /\ ~pool.shutdown_ =>
                  pool'.active_connections_ = pool.active_connections_ - 1
            /\ driver'[Len(driver')].fn = "return_connection"]_vars
    /\ [][/\ rt.phase \in {"idle", "returned", "thrown", "sleeping",
                           "acquiring"}
          /\ rt'.phase \in {"returned", "thrown", "sleeping"}
          /\ rt' # rt
          => pool'.active_connections_ = pool.active_connections_]_vars

\* A query that failed once with a retryable error and then returned: two
\* acquires, two returns, and active_connections back at zero on a live pool.
WitC37 ==
    /\ rt.phase = "returned"
    /\ rt.calls = 2
    /\ Len(SelectSeq(driver, LAMBDA e : e.fn = "acquire")) = 2
    /\ Len(SelectSeq(driver, LAMBDA e : e.fn = "return_connection")) = 2
    /\ ~pool.shutdown_
    /\ pool.active_connections_ = 0
    /\ pool.total_connections_ > 0

\* The texts of the two errors of acquire() that come from the pool itself.
PoolTimeoutText == acquire_error("timeout", << >>).what
PoolShutDownText == acquire_error("shutdown", << >>).what

\* Number of times the pooled query() has called acquire().
AcquireCalls == Len(SelectSeq(driver, LAMBDA e : e.fn = "acquire"))

WitC38ShutDown ==
    /\ cli.retry.enabled
    /\ cli.retry.retry_on_connection_lost
    /\ cli.retry.max_attempts > 1
    /\ pool.shutdown_
    /\ rt.phase = "thrown"
    /\ rt.last = PoolShutDownText
    /\ driver = <<Ev("acquire")>>
\* The pool timed out with retry_on_timeout off: thrown after one attempt.
WitC38NoRetry ==
    /\ cli.retry.enabled
    /\ ~cli.retry.retry_on_timeout
    /\ rt.phase = "thrown"
    /\ rt.last = PoolTimeoutText
    /\ rt.attempt = 1
====
